---------------------------- MODULE Spec2Model ----------------------------
(***************************************************************************)
(* SecureBank: the SSN codec (utils/encryption.ts), the signup/login/      *)
(* logout handlers of the auth router, the funding-modal validators and    *)
(* the date-of-birth validators, as state machines.                        *)
(*                                                                         *)
(* Conventions.  A JavaScript string is the sequence of its UTF-16 code    *)
(* units (naturals); a Buffer is the sequence of its bytes (0..255).  A    *)
(* call that may throw returns [ok |-> TRUE, val |-> v] or                 *)
(* [ok |-> FALSE, err |-> e].                                              *)
(***************************************************************************)
EXTENDS Integers, Sequences, FiniteSets, TLC

VARIABLES
    envKey,          \* process.env.ENCRYPTION_KEY: NoValue (unset) or a string
    ENCRYPTION_KEY,  \* the module-level key Buffer, set once at module load
    ssn,             \* codec harness: the plaintext handed to encryptSSN
    enc,             \* codec harness: the results of the encryptSSN(ssn) calls so far
    ivs,             \* codec harness: the IVs crypto.randomBytes returned to those calls
    last,            \* codec harness: the most recent codec call and its outcome
    fundingType,     \* FundingModal: the watched fundingType, "card" or "bank"
    accountNumber,   \* FundingModal: the value of the accountNumber field
    routingNumber,   \* FundingModal: the value of the routingNumber field, NoValue when unmounted
    fundErrors,      \* FundingModal: formState.errors after handleSubmit's validation
    amount,          \* FundingModal: the value of the amount field
    mutation,        \* FundingModal: the input onSubmit handed to fundAccount, if any
    tzOffset,        \* date of birth: the local time zone, in hours ahead of UTC
    now,             \* date of birth: the instant new Date() returns, in hours
    dateOfBirth,     \* date of birth: the date the submitted 'YYYY-MM-DD' string spells
    dobResult,       \* date of birth: what the form rule and the schema refine returned
    emailField,      \* SignupPage: the value of the email field
    passwordField,   \* SignupPage: the value of the password field
    signupErrors,    \* SignupPage: what the form rules and the signup schema said of the two
    step,            \* SignupPage: the wizard's step
    clicks,          \* SignupPage: the nextStep calls so far, each with the step it closed over
    users,           \* auth: the rows of the users table, in rowid order
    sessions,        \* auth: the rows of the sessions table, in insertion order
    reqs,            \* auth: the signup/login/logout calls so far, each with its position
    clock            \* auth: the time in seconds, as jwt.sign and new Date() read it

procVars == <<envKey, ENCRYPTION_KEY>>
codecVars == <<ssn, enc, ivs, last>>
fundVars == <<fundingType, accountNumber, routingNumber, fundErrors, amount, mutation>>
dobVars == <<tzOffset, now, dateOfBirth, dobResult>>
authVars == <<users, sessions, reqs, clock>>
formVars == <<emailField, passwordField, signupErrors, step, clicks>>
vars == <<procVars, codecVars, fundVars, dobVars, formVars, authVars>>

\* undefined: a value no string equals.
NoValue == <<-1>>

\* The values of the components a specification leaves alone.
NoCall == [op |-> "none"]
NotValidated == [validated |-> FALSE]
NotCalled == [called |-> FALSE]
ProcIdle == envKey = NoValue /\ ENCRYPTION_KEY = << >>
CodecIdle == ssn = << >> /\ enc = << >> /\ ivs = << >> /\ last = NoCall
FundIdle ==
    /\ fundingType = "card"
    /\ accountNumber = << >>
    /\ routingNumber = NoValue
    /\ fundErrors = NotValidated
    /\ amount = << >>
    /\ mutation = NotCalled

NoDate == [year |-> 0, month |-> 0, day |-> 0]
NotRun == [form |-> "pending", schema |-> "pending"]
DobIdle == tzOffset = 0 /\ now = 0 /\ dateOfBirth = NoDate /\ dobResult = NotRun
NotParsed == [emailForm |-> "pending", passwordForm |-> "pending",
              emailSchema |-> "pending", passwordSchema |-> "pending"]
FormIdle ==
    /\ emailField = << >>
    /\ passwordField = << >>
    /\ signupErrors = NotParsed
    /\ step = 1
    /\ clicks = << >>

AuthIdle == users = << >> /\ sessions = << >> /\ reqs = << >> /\ clock = 0

Ok(v) == [ok |-> TRUE, val |-> v]
Err(e) == [ok |-> FALSE, err |-> e]

(***************************************************************************)
(* Strings and buffers                                                     *)
(***************************************************************************)

\* Code units of the characters the model writes literally.
Colon == 58
Star == 42
Hyphen == 45
Space == 32
ReplacementChar == 65533

\* "0".."9" are 48..57.
IsDigit(c) == c >= 48 /\ c <= 57
DigitChar(n) == 48 + n

RECURSIVE Xor(_, _)
\* Bitwise exclusive or of two naturals.
Xor(a, b) ==
    IF a = 0 THEN b
    ELSE IF b = 0 THEN a
    ELSE ((a + b) % 2) + 2 * Xor(a \div 2, b \div 2)

\* The exclusive or of two 4-bit values, tabulated once.
XorNibble == [a \in 0..15 |-> [b \in 0..15 |-> Xor(a, b)]]
XorByte(a, b) == 16 * XorNibble[a \div 16][b \div 16] + XorNibble[a % 16][b % 16]

XorBytes(x, y) == [i \in 1..Len(x) |-> XorByte(x[i], y[i])]

RECURSIVE SumRange(_, _, _)
SumRange(s, lo, hi) ==
    IF lo > hi THEN 0
    ELSE IF lo = hi THEN s[lo]
    ELSE LET mid == (lo + hi) \div 2
         IN  SumRange(s, lo, mid) + SumRange(s, mid + 1, hi)
\* The sum of the elements of a sequence of numbers.
SumSeq(s) == SumRange(s, 1, Len(s))

RECURSIVE FlattenRange(_, _, _)
FlattenRange(ss, lo, hi) ==
    IF lo > hi THEN << >>
    ELSE IF lo = hi THEN ss[lo]
    ELSE LET mid == (lo + hi) \div 2
         IN  FlattenRange(ss, lo, mid) \o FlattenRange(ss, mid + 1, hi)
\* The concatenation of a sequence of sequences.
Flatten(ss) == FlattenRange(ss, 1, Len(ss))

\* Buffer.toString('hex') / cipher output encoding 'hex': two lowercase hex
\* digits per byte, high nibble first.
HexDigit(n) == IF n < 10 THEN 48 + n ELSE 87 + n
toHex(buf) ==
    [i \in 1..(2 * Len(buf)) |->
        LET b == buf[(i + 1) \div 2]
        IN  IF i % 2 = 1 THEN HexDigit(b \div 16) ELSE HexDigit(b % 16)]

\* The value of a hex digit (either case), -1 for any other code unit.
HexValue(c) ==
    IF c >= 48 /\ c <= 57 THEN c - 48
    ELSE IF c >= 97 /\ c <= 102 THEN c - 87
    ELSE IF c >= 65 /\ c <= 70 THEN c - 55
    ELSE -1
IsHexChar(c) == HexValue(c) >= 0

\* The number of leading well-formed hex pairs of str.
HexPairs(str) ==
    LET bad == {k \in 1..(Len(str) \div 2) :
                   ~(IsHexChar(str[2 * k - 1]) /\ IsHexChar(str[2 * k]))}
    IN  IF bad = {} THEN Len(str) \div 2
        ELSE (CHOOSE k \in bad : \A j \in bad : k <= j) - 1

\* Buffer.from(str, 'hex') / input encoding 'hex': decodes pairs of hex digits
\* and stops at the first pair that is not two hex digits; a trailing odd
\* digit is dropped.
fromHex(str) ==
    [k \in 1..HexPairs(str) |->
        16 * HexValue(str[2 * k - 1]) + HexValue(str[2 * k])]

\* String.prototype.split(sep) for a one-character separator: the pieces
\* between ALL the occurrences of sep, one more piece than occurrences.
split(str, sep) ==
    LET at == {i \in 1..Len(str) : str[i] = sep}
        \* the position of the k-th separator; 0 and Len(str) + 1 bound the string
        pos(k) == IF k = 0 THEN 0
                  ELSE IF k > Cardinality(at) THEN Len(str) + 1
                  ELSE CHOOSE i \in at : Cardinality({j \in at : j < i}) = k - 1
    IN  [k \in 1..(Cardinality(at) + 1) |-> SubSeq(str, pos(k - 1) + 1, pos(k) - 1)]

\* String.prototype.includes for a one-character needle.
includes(str, c) == \E i \in 1..Len(str) : str[i] = c

\* String.prototype.slice(-n): the last n code units (all of them when shorter).
sliceLast(str, n) ==
    IF Len(str) <= n THEN str ELSE SubSeq(str, Len(str) - n + 1, Len(str))

(***************************************************************************)
(* UTF-8, as the 'utf8' input and output encodings of the cipher streams   *)
(* apply it to a UTF-16 string.                                            *)
(***************************************************************************)

IsHighSurrogate(c) == c >= 55296 /\ c <= 56319
IsLowSurrogate(c) == c >= 56320 /\ c <= 57343

\* The UTF-8 bytes of code point cp.
Utf8OfCodePoint(cp) ==
    IF cp < 128 THEN <<cp>>
    ELSE IF cp < 2048 THEN <<192 + (cp \div 64), 128 + (cp % 64)>>
    ELSE IF cp < 65536
         THEN <<224 + (cp \div 4096), 128 + ((cp \div 64) % 64), 128 + (cp % 64)>>
    ELSE <<240 + (cp \div 262144), 128 + ((cp \div 4096) % 64),
           128 + ((cp \div 64) % 64), 128 + (cp % 64)>>

\* The bytes the code unit at position i contributes.  A high surrogate
\* followed by a low one is one code point, whose bytes the high one
\* contributes; a surrogate that is not part of a pair is encoded as U+FFFD
\* (EF BF BD).
Utf8OfUnit(str, i) ==
    IF IsHighSurrogate(str[i]) /\ i < Len(str) /\ IsLowSurrogate(str[i + 1])
    THEN Utf8OfCodePoint(65536 + (str[i] - 55296) * 1024 + (str[i + 1] - 56320))
    ELSE IF IsLowSurrogate(str[i]) /\ i > 1 /\ IsHighSurrogate(str[i - 1])
         THEN << >>
    ELSE IF IsHighSurrogate(str[i]) \/ IsLowSurrogate(str[i])
         THEN Utf8OfCodePoint(ReplacementChar)
    ELSE Utf8OfCodePoint(str[i])

utf8Encode(str) == Flatten([i \in 1..Len(str) |-> Utf8OfUnit(str, i)])

\* The UTF-16 code units of code point cp.
Utf16OfCodePoint(cp) ==
    IF cp < 65536 THEN <<cp>>
    ELSE <<55296 + ((cp - 65536) \div 1024), 56320 + ((cp - 65536) % 1024)>>

RECURSIVE Utf8DecodeFrom(_, _, _, _, _, _)
\* The decoder's state is the code point so far, the continuation bytes still
\* needed and the range the next continuation byte must lie in.  A byte that
\* cannot continue or start a sequence yields U+FFFD; a byte that ends a
\* sequence prematurely is decoded again as the start of the next one.
Utf8DecodeFrom(b, i, cp, needed, lower, upper) ==
    IF i > Len(b) THEN (IF needed > 0 THEN <<ReplacementChar>> ELSE << >>)
    ELSE IF needed = 0 THEN
        IF b[i] <= 127 THEN <<b[i]>> \o Utf8DecodeFrom(b, i + 1, 0, 0, 128, 191)
        ELSE IF b[i] >= 194 /\ b[i] <= 223
             THEN Utf8DecodeFrom(b, i + 1, b[i] - 192, 1, 128, 191)
        ELSE IF b[i] >= 224 /\ b[i] <= 239
             THEN Utf8DecodeFrom(b, i + 1, b[i] - 224, 2,
                                 IF b[i] = 224 THEN 160 ELSE 128,
                                 IF b[i] = 237 THEN 159 ELSE 191)
        ELSE IF b[i] >= 240 /\ b[i] <= 244
             THEN Utf8DecodeFrom(b, i + 1, b[i] - 240, 3,
                                 IF b[i] = 240 THEN 144 ELSE 128,
                                 IF b[i] = 244 THEN 143 ELSE 191)
        ELSE <<ReplacementChar>> \o Utf8DecodeFrom(b, i + 1, 0, 0, 128, 191)
    ELSE IF b[i] < lower \/ b[i] > upper
         THEN <<ReplacementChar>> \o Utf8DecodeFrom(b, i, 0, 0, 128, 191)
    ELSE IF needed = 1
         THEN Utf16OfCodePoint(cp * 64 + (b[i] - 128))
              \o Utf8DecodeFrom(b, i + 1, 0, 0, 128, 191)
    ELSE Utf8DecodeFrom(b, i + 1, cp * 64 + (b[i] - 128), needed - 1, 128, 191)

utf8Decode(b) == Utf8DecodeFrom(b, 1, 0, 0, 128, 191)

\* A string that utf8Encode represents exactly: no surrogate outside a pair.
WellFormed(str) ==
    \A i \in 1..Len(str) :
        /\ IsHighSurrogate(str[i]) => i < Len(str) /\ IsLowSurrogate(str[i + 1])
        /\ IsLowSurrogate(str[i]) => i > 1 /\ IsHighSurrogate(str[i - 1])

(***************************************************************************)
(* The cipher.  crypto's SHA-256 and AES-256 are library code; the model   *)
(* keeps what the codec relies on (a 32-byte digest of any string, a keyed *)
(* permutation of 16-byte blocks with its inverse) and stands in small     *)
(* arithmetic for their internals.  CBC chaining and PKCS#7 padding are    *)
(* modelled as the cipher performs them.                                   *)
(***************************************************************************)

KeyBytes == 32
BlockBytes == 16
IvBytes == 16

\* Variant: the bytes of the secret are the key, undigested.
sha256_rawBytes(str) == utf8Encode(str)

\* createHash('sha256').update(s).digest(): 32 bytes whatever the length of s.
sha256(str) ==
    LET b == utf8Encode(str)
        s == SumSeq(b)
        w == SumSeq([i \in 1..Len(b) |-> i * b[i]])
    IN  [i \in 1..KeyBytes |->
            (Len(b) * 29 + (s % 256) * (2 * i + 1) + (w % 256) * (i * i + 7) + i * i * i + 99) % 256]

HalfBytes == 8
Rounds == 4

\* The round function: every output byte depends on every input byte and on
\* the round key (8 bytes of the 32-byte key per round).
RoundKey(key, r) == SubSeq(key, (r - 1) * HalfBytes + 1, r * HalfBytes)
RoundF(half, rk) ==
    LET s == SumSeq([j \in 1..HalfBytes |-> (2 * j + 1) * (half[j] + rk[j])]) % 4096
    IN  [i \in 1..HalfBytes |->
            LET t == (s + 397 * i) % 4096
            IN  (((t * t) \div 16) + t + i) % 256]

RECURSIVE FeistelEnc(_, _, _, _)
FeistelEnc(key, l, r, k) ==
    IF k > Rounds THEN l \o r
    ELSE FeistelEnc(key, r, XorBytes(l, RoundF(r, RoundKey(key, k))), k + 1)

RECURSIVE FeistelDec(_, _, _, _)
FeistelDec(key, l, r, k) ==
    IF k < 1 THEN l \o r
    ELSE FeistelDec(key, XorBytes(r, RoundF(l, RoundKey(key, k))), l, k - 1)

\* The block cipher under key, a permutation of the 16-byte blocks, and its inverse.
EncryptBlock(key, block) ==
    FeistelEnc(key, SubSeq(block, 1, HalfBytes), SubSeq(block, HalfBytes + 1, BlockBytes), 1)
DecryptBlock(key, block) ==
    FeistelDec(key, SubSeq(block, 1, HalfBytes), SubSeq(block, HalfBytes + 1, BlockBytes),
               Rounds)

\* PKCS#7: n bytes of value n, 1 <= n <= 16, bring the data to whole blocks.
Pad(data) ==
    LET n == BlockBytes - (Len(data) % BlockBytes)
    IN  data \o [i \in 1..n |-> n]
PadOk(data) ==
    /\ Len(data) > 0
    /\ LET n == data[Len(data)]
       IN  /\ n >= 1
           /\ n <= BlockBytes
           /\ \A i \in (Len(data) - n + 1)..Len(data) : data[i] = n
\* Mutant: the padding is left on the decrypted data (setAutoPadding(false)).
Unpad_keepPadding(data) == data
Unpad(data) == SubSeq(data, 1, Len(data) - data[Len(data)])

BlockAt(data, k) == SubSeq(data, (k - 1) * BlockBytes + 1, k * BlockBytes)

RECURSIVE CbcEncryptFrom(_, _, _, _)
CbcEncryptFrom(key, prev, data, k) ==
    IF (k - 1) * BlockBytes >= Len(data) THEN << >>
    ELSE LET c == EncryptBlock(key, XorBytes(BlockAt(data, k), prev))
         IN  c \o CbcEncryptFrom(key, c, data, k + 1)

\* cipher.update + cipher.final of aes-256-cbc: pad, then chain the blocks.
CbcEncrypt(key, iv, data) == CbcEncryptFrom(key, iv, Pad(data), 1)

\* The chained decryption of whole blocks, padding still on.
CbcDecryptBlocks(key, iv, data) ==
    Flatten([k \in 1..(Len(data) \div BlockBytes) |->
        XorBytes(DecryptBlock(key, BlockAt(data, k)),
                 IF k = 1 THEN iv ELSE BlockAt(data, k - 1))])

(***************************************************************************)
(* utils/encryption.ts                                                     *)
(***************************************************************************)

\* 'temporary-key-for-development-use'
DefaultKeyString ==
    <<116, 101, 109, 112, 111, 114, 97, 114, 121, 45, 107, 101, 121, 45, 102, 111, 114, 45, 100, 101, 118, 101, 108, 111, 112, 109, 101, 110, 116, 45, 117, 115, 101>>

\* process.env.ENCRYPTION_KEY || '...': unset and the empty string both fall
\* back to the development key string.
KEY_STRING == IF envKey = NoValue \/ envKey = << >> THEN DefaultKeyString ELSE envKey

\* Mutant: a fixed initialization vector instead of the one drawn.
encryptSSN_fixedIv(plain, iv) ==
    LET zero == [i \in 1..IvBytes |-> 0]
    IN  toHex(zero) \o <<Colon>>
            \o toHex(CbcEncrypt(ENCRYPTION_KEY, zero, utf8Encode(plain)))

\* iv.toString('hex') + ':' + the hex of cipher.update(ssn, 'utf8') and
\* cipher.final() for a cipher made with key and iv.
StoredForm(key, iv, plain) ==
    toHex(iv) \o <<Colon>> \o toHex(CbcEncrypt(key, iv, utf8Encode(plain)))

\* The stored form of ssn under initialization vector iv (crypto.randomBytes(16),
\* drawn by the caller of this operator).
encryptSSN(plain, iv) == StoredForm(ENCRYPTION_KEY, iv, plain)

decryptSSN(encryptedSSN) ==
    LET parts == split(encryptedSSN, Colon)
        iv == fromHex(parts[1])
    IN  IF Len(iv) # IvBytes THEN Err("Invalid initialization vector")
        ELSE IF Len(parts) < 2 THEN Err("ERR_INVALID_ARG_TYPE")
        ELSE LET data == fromHex(parts[2])
             IN  IF Len(data) = 0 \/ Len(data) % BlockBytes # 0
                 THEN Err("wrong final block length")
                 ELSE LET padded == CbcDecryptBlocks(ENCRYPTION_KEY, iv, data)
                      IN  IF ~PadOk(padded) THEN Err("bad decrypt")
                          ELSE Ok(utf8Decode(Unpad(padded)))

MaskPrefix == <<Star, Star, Star, Hyphen, Star, Star, Hyphen>>

\* Mutant: the argument is masked as it is, stored form or not.
maskSSN_noDecrypt(s) == Ok(MaskPrefix \o sliceLast(s, 4))

maskSSN(s) ==
    LET decrypted == IF includes(s, Colon) THEN decryptSSN(s) ELSE Ok(s)
    IN  IF ~decrypted.ok THEN decrypted
        ELSE Ok(MaskPrefix \o sliceLast(decrypted.val, 4))

(***************************************************************************)
(* Inputs of the codec harness                                             *)
(***************************************************************************)

MaxPlainLen == 20
NumIvs == 2

\* "1234567890123...": the digit string of length n ("123456789" for n = 9).
DigitRun(n) == [i \in 1..n |-> DigitChar(i % 10)]

\* Strings beyond plain digits: a ':' inside, two- and three-byte characters,
\* a surrogate pair, and surrogates that belong to no pair.
OddPlaintexts ==
    { <<49, 50, 58, 51, 52>>,
      <<233, 8364, 49, 50, 51, 52>>,
      <<53, 54, 55, 56, 55357, 56832>>,
      <<55296, 49, 50, 51, 52, 53, 54, 55, 56>>,
      <<49, 50, 51, 52, 53, 56320, 55, 56, 57>> }

Plaintexts == {DigitRun(n) : n \in 0..MaxPlainLen} \cup OddPlaintexts

\* The values crypto.randomBytes(16) may return, cut down to NumIvs of them.
IvOf(seed) == [i \in 1..IvBytes |-> (seed * 37 + i * 11 + seed * i * i + 5) % 256]
Ivs == {IvOf(k) : k \in 1..NumIvs}

\* The values of process.env.ENCRYPTION_KEY: unset, empty, a short and a long secret.
EnvKeys ==
    { NoValue, << >>, <<107, 51, 121>>,
      <<97, 45, 109, 117, 99, 104, 45, 108, 111, 110, 103, 101, 114, 45, 112, 114, 111, 100, 117, 99, 116, 105, 111, 110, 45, 115, 101, 99, 114, 101, 116, 45, 111, 102, 45, 52, 56, 45, 99, 104, 97, 114, 97, 99, 116, 101, 114, 115>> }

HexChars == {HexDigit(n) : n \in 0..15}

\* str with the code unit at position pos replaced by c.
ReplaceAt(str, pos, c) == [str EXCEPT ![pos] = c]

\* The positions of the ciphertext portion of a stored value.
CipherPositions(stored) == (2 * IvBytes + 2)..Len(stored)

(***************************************************************************)
(* The codec harness: encryptSSN is called on ssn up to MaxEncryptCalls    *)
(* times, then decryptSSN or maskSSN is called once, on ssn or on one of   *)
(* the stored values.                                                      *)
(***************************************************************************)

MaxEncryptCalls == 2

LoadModule(e) ==
    /\ envKey = e
    /\ ENCRYPTION_KEY = sha256(KEY_STRING)

CodecInit ==
    /\ \E e \in EnvKeys : LoadModule(e)
    /\ ssn \in Plaintexts
    /\ enc = << >>
    /\ ivs = << >>
    /\ last = NoCall
    /\ FundIdle
    /\ DobIdle
    /\ FormIdle
    /\ AuthIdle

\* The harness has not yet made its decryptSSN or maskSSN call.
Probing == last.op \in {"none", "encryptSSN"}

CallEncryptSSN ==
    /\ Probing
    /\ Len(enc) < MaxEncryptCalls
    /\ \E iv \in Ivs :
         LET out == encryptSSN(ssn, iv)
         IN  /\ enc' = Append(enc, out)
             /\ ivs' = Append(ivs, iv)
             /\ last' = [op |-> "encryptSSN", arg |-> ssn, iv |-> iv, out |-> Ok(out)]
    /\ UNCHANGED <<ssn, procVars, fundVars, dobVars, formVars, authVars>>

CallDecryptSSN ==
    /\ Probing
    /\ \E k \in DOMAIN enc :
         last' = [op |-> "decryptSSN", arg |-> enc[k], of |-> k, tampered |-> FALSE,
                  out |-> decryptSSN(enc[k])]
    /\ UNCHANGED <<ssn, enc, ivs, procVars, fundVars, dobVars, formVars, authVars>>

CallMaskPlain ==
    /\ Probing
    /\ last' = [op |-> "maskSSN", arg |-> ssn, of |-> 0, out |-> maskSSN(ssn)]
    /\ UNCHANGED <<ssn, enc, ivs, procVars, fundVars, dobVars, formVars, authVars>>

CallMaskStored ==
    /\ Probing
    /\ \E k \in DOMAIN enc :
         last' = [op |-> "maskSSN", arg |-> enc[k], of |-> k, out |-> maskSSN(enc[k])]
    /\ UNCHANGED <<ssn, enc, ivs, procVars, fundVars, dobVars, formVars, authVars>>

CodecNext ==
    \/ CallEncryptSSN
    \/ CallDecryptSSN
    \/ CallMaskPlain
    \/ CallMaskStored

SpecCodec == CodecInit /\ [][CodecNext]_vars

(***************************************************************************)
(* The tamper harness: one stored value, then decryptSSN on that value     *)
(* with one character of its ciphertext portion replaced by another hex    *)
(* character.                                                              *)
(***************************************************************************)

\* The 9-digit SSN of the tests (one cipher block) and a 20-digit string (two).
TamperPlaintexts == {DigitRun(9), DigitRun(MaxPlainLen)}

TamperInit ==
    /\ LoadModule(NoValue)
    /\ ssn \in TamperPlaintexts
    /\ enc = << >>
    /\ ivs = << >>
    /\ last = NoCall
    /\ FundIdle
    /\ DobIdle
    /\ FormIdle
    /\ AuthIdle

TamperEncryptSSN ==
    /\ enc = << >>
    /\ \E iv \in Ivs :
         LET out == encryptSSN(ssn, iv)
         IN  /\ enc' = <<out>>
             /\ ivs' = <<iv>>
             /\ last' = [op |-> "encryptSSN", arg |-> ssn, iv |-> iv, out |-> Ok(out)]
    /\ UNCHANGED <<ssn, procVars, fundVars, dobVars, formVars, authVars>>

CallDecryptTampered ==
    /\ last.op = "encryptSSN"
    /\ \E pos \in CipherPositions(enc[1]) :
         \E c \in HexChars \ {enc[1][pos]} :
           LET t == ReplaceAt(enc[1], pos, c)
           IN  last' = [op |-> "decryptSSN", arg |-> t, of |-> 1, tampered |-> TRUE,
                        out |-> decryptSSN(t)]
    /\ UNCHANGED <<ssn, enc, ivs, procVars, fundVars, dobVars, formVars, authVars>>

TamperNext ==
    \/ TamperEncryptSSN
    \/ CallDecryptTampered

SpecTamper == TamperInit /\ [][TamperNext]_vars

(***************************************************************************)
(* The malformed-input harness: one stored value, then decryptSSN on a     *)
(* string that is not a stored value of the process: a plaintext never     *)
(* encrypted, a stored value without its separator, with a damaged IV      *)
(* part, with a cut or empty ciphertext, or made under another key.        *)
(***************************************************************************)

\* The secret of another process.
OtherSecret == <<111, 116, 104, 101, 114>>

\* The arguments tried for the plaintext plain and its stored value under iv,
\* each with the kind of damage.
MalformedOf(plain, iv, stored) ==
    LET ivHex == SubSeq(stored, 1, 2 * IvBytes)
        ct == SubSeq(stored, 2 * IvBytes + 2, Len(stored))
    IN  { [kind |-> "noSeparator", arg |-> ivHex \o ct],
          [kind |-> "ivOnly", arg |-> ivHex],
          [kind |-> "shortIv", arg |-> SubSeq(ivHex, 1, 2 * IvBytes - 2) \o <<Colon>> \o ct],
          [kind |-> "nonHexIv", arg |-> ReplaceAt(ivHex, 5, 122) \o <<Colon>> \o ct],
          [kind |-> "emptyIv", arg |-> <<Colon>> \o ct],
          [kind |-> "cutCiphertext", arg |-> SubSeq(stored, 1, Len(stored) - 2)],
          [kind |-> "emptyCiphertext", arg |-> ivHex \o <<Colon>>],
          [kind |-> "otherKey", arg |-> StoredForm(sha256(OtherSecret), iv, plain)],
          [kind |-> "appended", arg |-> stored \o <<Colon, 97, 98>>],
          [kind |-> "appendedBlock", arg |-> stored \o <<Colon>> \o ct] }
        \cup (IF includes(plain, Colon) THEN {}
              ELSE {[kind |-> "legacyPlaintext", arg |-> plain]})

MalformedInit ==
    /\ \E e \in EnvKeys : LoadModule(e)
    /\ ssn \in Plaintexts
    /\ enc = << >>
    /\ ivs = << >>
    /\ last = NoCall
    /\ FundIdle
    /\ DobIdle
    /\ FormIdle
    /\ AuthIdle

MalformedEncryptSSN ==
    /\ enc = << >>
    /\ \E iv \in Ivs :
         LET out == encryptSSN(ssn, iv)
         IN  /\ enc' = <<out>>
             /\ ivs' = <<iv>>
             /\ last' = [op |-> "encryptSSN", arg |-> ssn, iv |-> iv, out |-> Ok(out)]
    /\ UNCHANGED <<ssn, procVars, fundVars, dobVars, formVars, authVars>>

CallDecryptMalformed ==
    /\ last.op = "encryptSSN"
    /\ \E m \in MalformedOf(ssn, ivs[1], enc[1]) :
         last' = [op |-> "decryptSSN", arg |-> m.arg, kind |-> m.kind,
                  out |-> decryptSSN(m.arg)]
    /\ UNCHANGED <<ssn, enc, ivs, procVars, fundVars, dobVars, formVars, authVars>>

MalformedNext ==
    \/ MalformedEncryptSSN
    \/ CallDecryptMalformed

SpecMalformed == MalformedInit /\ [][MalformedNext]_vars

(***************************************************************************)
(* components/FundingModal.tsx: the accountNumber and routingNumber rules  *)
(***************************************************************************)

\* JavaScript's \s: the white space and line terminator code units.
IsWhiteSpace(c) ==
    \/ c \in {9, 10, 11, 12, 13, 32, 160, 5760, 8232, 8233, 8239, 8287, 12288, 65279}
    \/ (c >= 8192 /\ c <= 8202)

\* The value true a validate function returns for an acceptable input.
Valid == "true"

\* value.replace(/[\s-]/g, '')
StripSeparators(value) == SelectSeq(value, LAMBDA c : ~(IsWhiteSpace(c) \/ c = Hyphen))

\* /^\d{lo,hi}$/ (\d is the ASCII digits only)
AllDigits(str, lo, hi) ==
    /\ Len(str) >= lo
    /\ Len(str) <= hi
    /\ \A i \in 1..Len(str) : IsDigit(str[i])

MinCardDigits == 13
MaxCardDigits == 19
MinAccountDigits == 4
MaxAccountDigits == 17
RoutingDigits == 9

\* parseInt of a one-digit string / Number of a digit character.
DigitValue(c) == c - 48

RECURSIVE LuhnLoop_noSubtract(_, _, _, _)
\* Variant: a doubled digit above 9 is not reduced by 9.
LuhnLoop_noSubtract(cleaned, i, isEven, sum) ==
    IF i < 1 THEN sum
    ELSE LET digit == DigitValue(cleaned[i])
         IN  LuhnLoop_noSubtract(cleaned, i - 1, ~isEven,
                                 sum + (IF isEven THEN digit * 2 ELSE digit))

RECURSIVE LuhnLoop(_, _, _, _)
\* The for loop of validFormat: i runs from the last character down to the
\* first, isEven flips at every step, and a digit met with isEven set is doubled
\* and, when that exceeds 9, reduced by 9.
LuhnLoop(cleaned, i, isEven, sum) ==
    IF i < 1 THEN sum
    ELSE LET digit == DigitValue(cleaned[i])
             doubled == IF isEven
                        THEN (IF digit * 2 > 9 THEN digit * 2 - 9 ELSE digit * 2)
                        ELSE digit
         IN  LuhnLoop(cleaned, i - 1, ~isEven, sum + doubled)

\* Mutant: the doubling starts at the last digit instead of the one before it.
LuhnSum_startDoubled(cleaned) == LuhnLoop(cleaned, Len(cleaned), TRUE, 0)
LuhnSum(cleaned) == LuhnLoop(cleaned, Len(cleaned), FALSE, 0)

\* validate.validFormat of accountNumber: true or the error message.
validFormat(value) ==
    IF fundingType = "card"
    THEN LET cleaned == StripSeparators(value)
         IN  IF ~AllDigits(cleaned, MinCardDigits, MaxCardDigits)
             THEN "Card number must be 13-19 digits"
             ELSE IF LuhnSum(cleaned) % 10 # 0 THEN "Invalid card number"
             ELSE Valid
    ELSE IF ~AllDigits(value, MinAccountDigits, MaxAccountDigits)
         THEN "Account number must be 4-17 digits"
         ELSE Valid

\* The digit characters lo..hi, and a regular expression anchored at the start
\* as the sequence of its character classes.
D(lo, hi) == {DigitChar(n) : n \in lo..hi}
PrefixMatch(str, classes) ==
    /\ Len(str) >= Len(classes)
    /\ \A i \in 1..Len(classes) : str[i] \in classes[i]

\* The regular expressions of validCardType, in the order they are tried.
VisaPatterns == { <<D(4, 4)>> }
MastercardPatterns ==
    { <<D(5, 5), D(1, 5)>>,
      <<D(2, 2), D(2, 2), D(2, 9), D(0, 9)>>,
      <<D(2, 2), D(3, 6), D(0, 9), D(0, 9)>>,
      <<D(2, 2), D(7, 7), D(0, 1), D(0, 9)>>,
      <<D(2, 2), D(7, 7), D(2, 2), D(0, 0)>> }
AmexPatterns == { <<D(3, 3), {DigitChar(4), DigitChar(7)}>> }
DiscoverPatterns ==
    { <<D(6, 6), D(0, 0), D(1, 1), D(1, 1)>>,
      <<D(6, 6), D(2, 2), D(2, 2), D(1, 1), D(2, 2), D(6, 9)>>,
      <<D(6, 6), D(2, 2), D(2, 2), D(9, 9), D(0, 1), D(0, 9)>>,
      <<D(6, 6), D(2, 2), D(2, 2), D(2, 8), D(0, 9), D(0, 9)>>,
      <<D(6, 6), D(2, 2), D(2, 2), D(9, 9), D(2, 2), D(0, 5)>>,
      <<D(6, 6), D(4, 4), D(4, 9)>>,
      <<D(6, 6), D(5, 5)>> }

\* validate.validCardType of accountNumber: true or the error message.
validCardType(value) ==
    IF fundingType # "card" THEN Valid
    ELSE LET cleaned == StripSeparators(value)
         IN  IF \E pat \in VisaPatterns \cup MastercardPatterns \cup AmexPatterns
                              \cup DiscoverPatterns : PrefixMatch(cleaned, pat)
             THEN Valid
             ELSE "Card type not supported. We accept Visa, Mastercard, Amex, and Discover"

\* The rules of the accountNumber field in the order react-hook-form applies
\* them: required, then the validate functions; the first failure is the error.
AccountNumberError(value) ==
    IF value = << >>
    THEN (IF fundingType = "card" THEN "Card number is required"
          ELSE "Account number is required")
    ELSE IF validFormat(value) # Valid THEN validFormat(value)
    ELSE validCardType(value)

\* Mutant: the weights 7, 3, 1 instead of 3, 7, 1.
RoutingChecksum_swapped(digits) ==
    (7 * (digits[1] + digits[4] + digits[7])) +
    (3 * (digits[2] + digits[5] + digits[8])) +
    (1 * (digits[3] + digits[6] + digits[9]))

\* The checksum of validRoutingNumber (digits[0] of the source is digits[1] here).
RoutingChecksum(digits) ==
    (3 * (digits[1] + digits[4] + digits[7])) +
    (7 * (digits[2] + digits[5] + digits[8])) +
    (1 * (digits[3] + digits[6] + digits[9]))

\* validate.validRoutingNumber: true or the error message.
validRoutingNumber(value) ==
    IF fundingType # "bank" THEN Valid
    ELSE IF value = NoValue \/ value = << >>
         THEN "Routing number is required for bank transfers"
    ELSE IF ~AllDigits(value, RoutingDigits, RoutingDigits)
         THEN "Routing number must be exactly 9 digits"
    ELSE IF RoutingChecksum([i \in 1..Len(value) |-> DigitValue(value[i])]) % 10 # 0
         THEN "Invalid routing number"
    ELSE Valid

\* The rules of the routingNumber field, which is mounted in bank mode only.
RoutingNumberError(value) ==
    IF fundingType # "bank" THEN Valid
    ELSE IF value = NoValue \/ value = << >>
         THEN "Routing number is required for bank transfers"
    ELSE validRoutingNumber(value)

(***************************************************************************)
(* The amount field of the funding form                                    *)
(***************************************************************************)

Dot == 46
Plus == 43

\* /^\d+\.?\d{0,2}$/: one or more digits, an optional dot, at most two more
\* digits, and nothing else.
AmountPattern(value) ==
    \E n \in 1..Len(value) :
        /\ \A i \in 1..n : IsDigit(value[i])
        /\ LET rest == SubSeq(value, n + 1, Len(value))
               tail == IF rest # << >> /\ rest[1] = Dot THEN Tail(rest) ELSE rest
           IN  /\ Len(tail) <= 2
               /\ \A i \in 1..Len(tail) : IsDigit(tail[i])

\* A Number as its decimal expansion: sign, integer part and the digits after
\* the point.  The strings that pass the pattern rule have at most two
\* decimals, and for those the comparisons below give what the comparisons
\* of the doubles give.
Num(neg, whole, frac) == [nan |-> FALSE, neg |-> neg, whole |-> whole, frac |-> frac]
NotANumber == [nan |-> TRUE, neg |-> FALSE, whole |-> 0, frac |-> << >>]

FracDigit(x, i) == IF i <= Len(x.frac) THEN x.frac[i] ELSE 0
FracLen(x, y) == IF Len(x.frac) >= Len(y.frac) THEN Len(x.frac) ELSE Len(y.frac)
IsZero(x) == x.whole = 0 /\ \A i \in 1..Len(x.frac) : x.frac[i] = 0
MagnitudeEqual(x, y) ==
    /\ x.whole = y.whole
    /\ \A i \in 1..FracLen(x, y) : FracDigit(x, i) = FracDigit(y, i)
MagnitudeLess(x, y) ==
    \/ x.whole < y.whole
    \/ /\ x.whole = y.whole
       /\ \E i \in 1..FracLen(x, y) :
              /\ FracDigit(x, i) < FracDigit(y, i)
              /\ \A j \in 1..(i - 1) : FracDigit(x, j) = FracDigit(y, j)

\* x === y and x < y of Numbers; both are false when either side is NaN.
NumEquals(x, y) ==
    /\ ~x.nan
    /\ ~y.nan
    /\ \/ IsZero(x) /\ IsZero(y)
       \/ x.neg = y.neg /\ MagnitudeEqual(x, y)
NumLess(x, y) ==
    /\ ~x.nan
    /\ ~y.nan
    /\ IF x.neg /\ ~y.neg THEN ~(IsZero(x) /\ IsZero(y))
       ELSE IF ~x.neg /\ y.neg THEN FALSE
       ELSE IF x.neg THEN MagnitudeLess(y, x)
       ELSE MagnitudeLess(x, y)

\* The number of leading elements of str that satisfy Test.
LeadingRun(str, Test(_)) ==
    IF \A i \in 1..Len(str) : Test(str[i]) THEN Len(str)
    ELSE (CHOOSE i \in 1..Len(str) : ~Test(str[i]) /\ \A j \in 1..(i - 1) : Test(str[j])) - 1

\* The value of a run of decimal digits, 0 for the empty run.
DigitsValue(digits) ==
    SumSeq([i \in 1..Len(digits) |-> DigitValue(digits[i]) * (10 ^ (Len(digits) - i))])

\* parseFloat: leading white space is skipped, then the longest prefix that
\* is a sign, digits, and a dot with digits is the value; NaN when that
\* prefix has no digit.  The exponent part and Infinity are left out: the
\* pattern rule admits no letter, so no string with one reaches parseFloat.
parseFloat(str) ==
    LET trimmed == SubSeq(str, LeadingRun(str, IsWhiteSpace) + 1, Len(str))
        signed == trimmed # << >> /\ trimmed[1] \in {Plus, Hyphen}
        body == IF signed THEN Tail(trimmed) ELSE trimmed
        n == LeadingRun(body, IsDigit)
        rest == SubSeq(body, n + 1, Len(body))
        m == IF rest # << >> /\ rest[1] = Dot THEN LeadingRun(Tail(rest), IsDigit) ELSE 0
    IN  IF n + m = 0 THEN NotANumber
        ELSE Num(signed /\ trimmed[1] = Hyphen,
                 DigitsValue(SubSeq(body, 1, n)),
                 [i \in 1..m |-> DigitValue(rest[i + 1])])

\* The literals 0, 0.01 and 10000 of the validate functions.
Zero == Num(FALSE, 0, << >>)
OneCent == Num(FALSE, 0, <<0, 1>>)
TenThousand == Num(FALSE, 10000, << >>)

notZero(value) ==
    LET parsed == parseFloat(value)
    IN  IF NumEquals(parsed, Zero) \/ NumLess(parsed, OneCent)
        THEN "Amount must be at least $0.01"
        ELSE Valid

notNegative(value) ==
    LET parsed == parseFloat(value)
    IN  IF NumLess(parsed, Zero) THEN "Amount cannot be negative" ELSE Valid

maxAmount(value) ==
    LET parsed == parseFloat(value)
    IN  IF NumLess(TenThousand, parsed) THEN "Amount cannot exceed $10,000" ELSE Valid

\* Variant: the rule without its test.
noLeadingZeros_off(value) == Valid

\* /^0\d/: a zero followed by another digit.
noLeadingZeros(value) ==
    IF Len(value) >= 2 /\ value[1] = DigitChar(0) /\ IsDigit(value[2])
    THEN "Remove leading zeros"
    ELSE Valid

\* The rules of register("amount") in the order react-hook-form applies
\* them: required, pattern, then the validate functions in the order they
\* are written; the first failure is the field's error.
AmountError(value) ==
    IF value = << >> THEN "Amount is required"
    ELSE IF ~AmountPattern(value) THEN "Invalid amount format"
    ELSE IF notZero(value) # Valid THEN notZero(value)
    ELSE IF notNegative(value) # Valid THEN notNegative(value)
    ELSE IF maxAmount(value) # Valid THEN maxAmount(value)
    ELSE noLeadingZeros(value)

(***************************************************************************)
(* Inputs of the funding form                                              *)
(***************************************************************************)

\* How far the lengths tried reach beyond the 13..19 the card rule accepts.
LenMargin == 1

\* '4532015112830366', the valid Visa number of the tests.
TestCard == <<52, 53, 51, 50, 48, 49, 53, 49, 49, 50, 56, 51, 48, 51, 54, 54>>

Zeros(n) == [i \in 1..n |-> DigitChar(0)]

\* The prefixes tried: inside and just outside every brand range.
CardPrefixes ==
    { <<52>>,
      <<53, 49>>,
      <<53, 53>>,
      <<53, 48>>,
      <<53, 54>>,
      <<50, 50, 50, 48>>,
      <<50, 50, 50, 49>>,
      <<50, 55, 50, 48>>,
      <<50, 55, 50, 49>>,
      <<50, 51, 48, 48>>,
      <<51, 52>>,
      <<51, 55>>,
      <<51, 53>>,
      <<54, 48, 49, 49>>,
      <<54, 48, 49, 48>>,
      <<54, 53>>,
      <<54, 52, 52>>,
      <<54, 52, 51>>,
      <<54, 52, 57>>,
      <<57, 57>>,
      <<54, 50, 50, 49, 50, 53>>,
      <<54, 50, 50, 49, 50, 54>>,
      <<54, 50, 50, 49, 51, 48>>,
      <<54, 50, 50, 57, 50, 53>>,
      <<54, 50, 50, 57, 50, 54>> }

\* Every digit string prefix 0...0 c of length n: exactly one c passes Luhn.
WithPrefix(prefix, n) == {prefix \o Zeros(n - Len(prefix) - 1) \o <<DigitChar(c)>> : c \in 0..9}

\* The decimal digits of n, padded with zeros on the left to width characters.
DigitsOf(n, width) == [i \in 1..width |-> DigitChar((n \div (10 ^ (width - i))) % 10)]

\* Every prefix around the brand ranges: all two-digit prefixes, all three-digit
\* prefixes 600-699, all four-digit prefixes 2000-2999 and 6000-6099, and all
\* six-digit prefixes 622000-622999.
BrandPrefixes ==
    {DigitsOf(n, 2) : n \in 0..99}
    \cup {DigitsOf(n, 3) : n \in 600..699}
    \cup {DigitsOf(n, 4) : n \in 2000..2999}
    \cup {DigitsOf(n, 4) : n \in 6000..6099}
    \cup {DigitsOf(n, 6) : n \in 622000..622999}

\* For each of them the 16-digit number prefix 0...0 c that passes Luhn.
BrandProbes ==
    UNION {{str \in WithPrefix(prefix, 16) : LuhnSum(str) % 10 = 0} : prefix \in BrandPrefixes}

CardInputs ==
    {ReplaceAt(TestCard, pos, DigitChar(d)) : pos \in 1..Len(TestCard), d \in 0..9}
    \cup UNION {WithPrefix(prefix, 16) : prefix \in CardPrefixes}
    \cup BrandProbes
    \cup UNION {WithPrefix(<<DigitChar(4)>>, n) :
                   n \in (MinCardDigits - LenMargin)..(MaxCardDigits + LenMargin)}
    \cup { << >>,
           <<52, 53, 51, 50, 32, 48, 49, 53, 49, 32, 49, 50, 56, 51, 32, 48, 51, 54, 54>>,
           <<52, 53, 51, 50, 45, 48, 49, 53, 49, 45, 49, 50, 56, 51, 45, 48, 51, 54, 54>>,
           <<52, 53, 51, 50, 32, 48, 49, 53, 49, 32, 49, 50, 56, 51, 32, 48, 51, 54, 55>>,
           <<52, 53, 51, 50, 48, 49, 53, 49, 49, 50, 56, 51, 48, 97, 54, 54>>,
           <<57, 57, 48, 48, 45, 48, 48, 48, 48, 45, 48, 48, 48, 48, 45, 48, 48, 48, 55>> }

\* '021000021' (valid) and '123456789' (invalid), the routing numbers of the tests.
TestRouting == <<48, 50, 49, 48, 48, 48, 48, 50, 49>>
RoutingInputs ==
    {ReplaceAt(TestRouting, pos, DigitChar(d)) : pos \in 1..Len(TestRouting), d \in 0..9}
    \cup {[i \in 1..n |-> DigitChar(i % 10)] :
             n \in (RoutingDigits - LenMargin)..(RoutingDigits + LenMargin)}
    \cup { NoValue, << >>,
           <<48, 50, 49, 48, 48, 48, 48, 50>>,
           <<48, 50, 49, 48, 48, 48, 48, 50, 49, 48>>,
           <<48, 48, 48, 48, 48, 48, 48, 48, 48, 48>>,
           <<48, 48, 48, 48, 48, 48, 48, 48>>,
           <<48, 50, 49, 48, 48, 48, 48, 50, 97>>,
           <<48, 50, 49, 48, 32, 48, 48, 48, 50>>,
           <<48, 50, 49, 45, 48, 48, 48, 50, 49>>,
           <<1632, 1634, 1633, 1632, 1632, 1632, 1632, 1634, 1633>> }

BankAccountInputs == { << >>, <<49, 50, 51>>, <<49, 50, 51, 52>>, <<49, 50, 51, 52, 53, 54, 55, 56, 57, 48, 49, 50, 51, 52, 53, 54, 55>> }

\* How long the amount strings tried are.
MaxAmountLen == 5

\* '100', an amount every rule accepts.
TestAmount == <<49, 48, 48>>

\* Every string of 0, 1 and the dot up to MaxAmountLen characters, and
\* 0, 0.00, 0.01, 0.1, 0.10, 00123.45, 100.50, 9999.99, 10000, 10000.00,
\* 10000.01, 10001, 0.001, 123.456, 1., .5, -1, +1, ' 1', '1 ', 1e3, 1,000.
AmountInputs ==
    UNION {[1..n -> {DigitChar(0), DigitChar(1), Dot}] : n \in 0..MaxAmountLen}
    \cup { <<48>>, <<48, 46, 48, 48>>, <<48, 46, 48, 49>>, <<48, 46, 49>>, <<48, 46, 49, 48>>,
           <<48, 48, 49, 50, 51, 46, 52, 53>>, <<49, 48, 48, 46, 53, 48>>,
           <<57, 57, 57, 57, 46, 57, 57>>, <<49, 48, 48, 48, 48>>,
           <<49, 48, 48, 48, 48, 46, 48, 48>>, <<49, 48, 48, 48, 48, 46, 48, 49>>,
           <<49, 48, 48, 48, 49>>, <<48, 46, 48, 48, 49>>, <<49, 50, 51, 46, 52, 53, 54>>,
           <<49, 46>>, <<46, 53>>, <<45, 49>>, <<43, 49>>, <<32, 49>>, <<49, 32>>,
           <<49, 101, 51>>, <<49, 44, 48, 48, 48>> }

(***************************************************************************)
(* The funding form: the fields hold some input, then handleSubmit         *)
(* validates every mounted field and, when none has an error, calls        *)
(* onSubmit.                                                               *)
(***************************************************************************)

FundInit ==
    /\ ProcIdle
    /\ CodecIdle
    /\ DobIdle
    /\ FormIdle
    /\ AuthIdle
    /\ fundErrors = NotValidated
    /\ mutation = NotCalled
    /\ amount = TestAmount
    /\ \/ /\ fundingType = "card"
          /\ accountNumber \in CardInputs
          /\ routingNumber = NoValue
       \/ /\ fundingType = "bank"
          /\ accountNumber \in BankAccountInputs
          /\ routingNumber \in RoutingInputs

\* The form with some amount typed in, and the test card or no card.
AmountInit ==
    /\ ProcIdle
    /\ CodecIdle
    /\ DobIdle
    /\ FormIdle
    /\ AuthIdle
    /\ fundErrors = NotValidated
    /\ mutation = NotCalled
    /\ amount \in AmountInputs
    /\ fundingType = "card"
    /\ accountNumber \in {TestCard, << >>}
    /\ routingNumber = NoValue

\* handleSubmit's validation pass: the error of every field, true for none.
ValidateFunding ==
    /\ fundErrors = NotValidated
    /\ fundErrors' = [validated |-> TRUE,
                      amount |-> AmountError(amount),
                      accountNumber |-> AccountNumberError(accountNumber),
                      routingNumber |-> RoutingNumberError(routingNumber)]
    /\ UNCHANGED <<fundingType, accountNumber, routingNumber, amount, mutation,
                   procVars, codecVars, dobVars, formVars, authVars>>

\* onSubmit, which handleSubmit calls when no field has an error: the amount
\* goes through parseFloat, the other fields as they are.
onSubmit ==
    /\ fundErrors.validated
    /\ fundErrors.amount = Valid
    /\ fundErrors.accountNumber = Valid
    /\ fundErrors.routingNumber = Valid
    /\ mutation = NotCalled
    /\ mutation' = [called |-> TRUE,
                    amount |-> parseFloat(amount),
                    type |-> fundingType,
                    accountNumber |-> accountNumber,
                    routingNumber |-> routingNumber]
    /\ UNCHANGED <<fundingType, accountNumber, routingNumber, amount, fundErrors,
                   procVars, codecVars, dobVars, formVars, authVars>>

FundNext ==
    \/ ValidateFunding
    \/ onSubmit

SpecFunding == FundInit /\ [][FundNext]_vars

SpecAmount == AmountInit /\ [][FundNext]_vars

(***************************************************************************)
(* The date-of-birth rules: SignupPage's register('dateOfBirth') validate  *)
(* functions and the refine of the signup schema.  A Date is its instant   *)
(* in hours; day 0 is 0000-03-01 of the proleptic Gregorian calendar.      *)
(***************************************************************************)

HoursPerDay == 24
MinimumAge == 18
MaximumAge == 120

\* The day number of a calendar date.
DaysFromCivil(date) ==
    LET y == IF date.month <= 2 THEN date.year - 1 ELSE date.year
        era == y \div 400
        yoe == y - era * 400
        mp == IF date.month > 2 THEN date.month - 3 ELSE date.month + 9
        doy == (153 * mp + 2) \div 5 + date.day - 1
        doe == yoe * 365 + yoe \div 4 - yoe \div 100 + doy
    IN  era * 146097 + doe

\* The calendar date of a day number.
CivilFromDays(z) ==
    LET era == z \div 146097
        doe == z - era * 146097
        yoe == (doe - doe \div 1460 + doe \div 36524 - doe \div 146096) \div 365
        doy == doe - (365 * yoe + yoe \div 4 - yoe \div 100)
        mp == (5 * doy + 2) \div 153
        d == doy - (153 * mp + 2) \div 5 + 1
        m == IF mp < 10 THEN mp + 3 ELSE mp - 9
    IN  [year |-> yoe + era * 400 + (IF m <= 2 THEN 1 ELSE 0), month |-> m, day |-> d]

\* new Date(value) for a date-only string: midnight UTC of that date; the
\* empty string gives an invalid Date (NaN), written -1 here.
NaN == -1

\* Variant: the string is not in a format Date parses, and every date is invalid.
ParseDate_invalid(value) == NaN

ParseDate(value) == IF value = NoDate THEN NaN ELSE DaysFromCivil(value) * HoursPerDay

\* getFullYear(), getMonth() and getDate(): the fields of the local date and
\* time, the month counted from 0.
LocalDate(instant) == CivilFromDays((instant + tzOffset) \div HoursPerDay)
getFullYear(instant) == LocalDate(instant).year
getMonth(instant) == LocalDate(instant).month - 1
getDate(instant) == LocalDate(instant).day

\* exactAge as both the form rule and the schema compute it.
exactAge(selectedDate, today) ==
    LET age == getFullYear(today) - getFullYear(selectedDate)
        monthDiff == getMonth(today) - getMonth(selectedDate)
        dayDiff == getDate(today) - getDate(selectedDate)
    IN  IF monthDiff < 0 \/ (monthDiff = 0 /\ dayDiff < 0) THEN age - 1 ELSE age

\* validate.notFuture, validate.minimumAge and validate.reasonable: true or
\* the message.  Every comparison with NaN is false.
notFuture(value) ==
    LET selectedDate == ParseDate(value)
    IN  IF selectedDate # NaN /\ selectedDate > now
        THEN "Date of birth cannot be in the future"
        ELSE "true"

minimumAge(value) ==
    LET selectedDate == ParseDate(value)
    IN  IF selectedDate # NaN /\ exactAge(selectedDate, now) < MinimumAge
        THEN "You must be at least 18 years old to open an account"
        ELSE "true"

reasonable(value) ==
    LET selectedDate == ParseDate(value)
    IN  IF selectedDate # NaN /\ getFullYear(now) - getFullYear(selectedDate) > MaximumAge
        THEN "Please enter a valid date of birth"
        ELSE "true"

\* The rules of the dateOfBirth field in the order react-hook-form applies
\* them; the first failure is the error.
DateOfBirthError(value) ==
    IF value = NoDate THEN "Date of birth is required"
    ELSE IF notFuture(value) # "true" THEN notFuture(value)
    ELSE IF minimumAge(value) # "true" THEN minimumAge(value)
    ELSE reasonable(value)

\* The refine of dateOfBirth in the signup schema.
DateOfBirthRefine(date) ==
    LET dob == ParseDate(date)
    IN  IF dob = NaN THEN TRUE
        ELSE IF dob > now THEN FALSE
        ELSE IF exactAge(dob, now) < MinimumAge THEN FALSE
        ELSE IF getFullYear(now) - getFullYear(dob) > MaximumAge THEN FALSE
        ELSE TRUE

(***************************************************************************)
(* The date-of-birth harness: a time zone, an instant and a submitted      *)
(* date, then the form rule and the schema refine are applied to it.       *)
(***************************************************************************)

\* How many days around the 18th birthday the submitted dates spread.
DobDaySpread == 2

D3(y, m, d) == [year |-> y, month |-> m, day |-> d]

\* Time zones from UTC-8 to UTC+9.
TzOffsets == {-8, -5, 0, 1, 9}

\* The UTC dates and hours of the instants tried.
UtcDates ==
    { D3(2026, 11, 6), D3(2026, 3, 1), D3(2026, 2, 28), D3(2028, 2, 29),
      D3(2026, 1, 1), D3(2026, 12, 31) }
UtcHours == {0, 3, 12, 22}
Instants == {DaysFromCivil(date) * HoursPerDay + h : date \in UtcDates, h \in UtcHours}

IsCalendarDate(date) ==
    /\ date.month \in 1..12
    /\ date.day >= 1
    /\ CivilFromDays(DaysFromCivil(date)) = date

YearsBefore(date, n) == D3(date.year - n, date.month, date.day)
AddDays(date, k) == CivilFromDays(DaysFromCivil(date) + k)

\* The dates submitted when the local date is today: around the 18th
\* birthday, 17 and 120 and 121 years back, today and the days after it, 1 and
\* 18 and 19 years ahead, and nothing.
DobInputs(today) ==
    {AddDays(YearsBefore(today, MinimumAge), k) : k \in (0 - DobDaySpread)..DobDaySpread}
    \cup {AddDays(YearsBefore(today, n), 0) : n \in {MinimumAge - 1, MaximumAge, MaximumAge + 1}}
    \cup {AddDays(today, k) : k \in 0..DobDaySpread}
    \cup {AddDays(YearsBefore(today, 0 - n), 0) : n \in {1, MinimumAge, MinimumAge + 1}}
    \cup {NoDate}

DobInit ==
    /\ ProcIdle
    /\ CodecIdle
    /\ FundIdle
    /\ AuthIdle
    /\ tzOffset \in TzOffsets
    /\ now \in Instants
    /\ dateOfBirth \in DobInputs(CivilFromDays((now + tzOffset) \div HoursPerDay))
    /\ dobResult = NotRun
    /\ FormIdle

\* The signup form validates the dateOfBirth field.
ValidateDateOfBirth ==
    /\ dobResult.form = "pending"
    /\ dobResult' = [dobResult EXCEPT !.form = DateOfBirthError(dateOfBirth)]
    /\ UNCHANGED <<tzOffset, now, dateOfBirth, procVars, codecVars, fundVars, formVars, authVars>>

\* The signup procedure parses its input: the refine of dateOfBirth.
RefineDateOfBirth ==
    /\ dobResult.schema = "pending"
    /\ dobResult' = [dobResult EXCEPT !.schema =
                        IF DateOfBirthRefine(dateOfBirth) THEN "accepted" ELSE "rejected"]
    /\ UNCHANGED <<tzOffset, now, dateOfBirth, procVars, codecVars, fundVars, formVars, authVars>>

DobNext ==
    \/ ValidateDateOfBirth
    \/ RefineDateOfBirth

SpecDob == DobInit /\ [][DobNext]_vars

(***************************************************************************)
(* The auth router: signup, login and logout.  Every await of a handler is *)
(* a point where the other calls in flight may run; a step of the model is *)
(* one awaited database operation together with the synchronous code that  *)
(* runs before the next await.  bcrypt.hash and bcrypt.compare touch no     *)
(* shared state and are folded into the step that follows them.             *)
(***************************************************************************)

\* expiresAt.setDate(expiresAt.getDate() + 7), in seconds.
SevenDays == 604800

\* String.prototype.toLowerCase on the ASCII letters.
toLowerCase(str) == [i \in 1..Len(str) |-> IF str[i] >= 65 /\ str[i] <= 90 THEN str[i] + 32 ELSE str[i]]

\* bcrypt.hash(password, 10) and bcrypt.compare: a hash is a string other than
\* the password, and compare succeeds on the password hashed only.
bcryptHash(password) == <<36, 50, 97, 36>> \o password
bcryptCompare(password, hash) == hash = bcryptHash(password)

\* jwt.sign({ userId }, secret, { expiresIn: '7d' }): the token is a function
\* of the user id and of the second it is issued in.
jwtSign(userId, iat) == [userId |-> userId, iat |-> iat]
NoToken == [userId |-> 0, iat |-> 0]
Cleared == [userId |-> 0, iat |-> -1]

NoUser == [id |-> 0, email |-> << >>, password |-> << >>, ssn |-> << >>]

\* db.select().from(users).where(eq(users.email, email)).get(): the first row
\* with that email, undefined when there is none.
UserByEmail(email) ==
    LET hits == {i \in DOMAIN users : users[i].email = email}
    IN  IF hits = {} THEN NoUser
        ELSE users[CHOOSE i \in hits : \A j \in hits : i <= j]

\* Mutant: the submitted SSN is stored as it came.
SignupUserValues_plainSsn(input, hashedPassword, iv) ==
    [email |-> input.email, password |-> hashedPassword, ssn |-> input.ssn]

\* The values signup inserts: { ...input, password: hashedPassword,
\* ssn: encryptSSN(input.ssn) }, of which the model keeps three columns.
SignupUserValues(input, hashedPassword, iv) ==
    [email |-> input.email, password |-> hashedPassword, ssn |-> encryptSSN(input.ssn, iv)]

\* db.insert(users).values(v): the row gets the next rowid.
InsertUser(v) == Append(users, [id |-> Len(users) + 1, email |-> v.email,
                                password |-> v.password, ssn |-> v.ssn])

\* db.delete(sessions).where(eq(sessions.userId, id)) and (eq(sessions.token, t)).
DeleteSessionsOfUser(id) == SelectSeq(sessions, LAMBDA row : row.userId # id)
\* A delete whose where clause matches no row.
DeleteSessionsWithToken_noMatch(t) == sessions
\* A delete without its where clause.
DeleteSessionsWithToken_all(t) == << >>
DeleteSessionsWithToken(t) == SelectSeq(sessions, LAMBDA row : row.token # t)

\* db.insert(sessions).values({ userId, token, expiresAt }).
InsertSession(userId, token) ==
    Append(sessions, [userId |-> userId, token |-> token, expiresAt |-> token.iat + SevenDays])

(***************************************************************************)
(* Inputs of the auth router                                               *)
(***************************************************************************)

\* How many calls are made in all, and how far the clock runs.
MaxRequests == 2
MaxClock == 1

\* 'a@x.io' and 'A@x.io'.
Emails == { <<97, 64, 120, 46, 105, 111>>, <<65, 64, 120, 46, 105, 111>> }
\* 'Passw0rd!' and 'Wr0ngPass!'.
GoodPassword == <<80, 97, 115, 115, 119, 48, 114, 100, 33>>
Passwords == { GoodPassword, <<87, 114, 48, 110, 103, 80, 97, 115, 115, 33>> }
\* '123456789'.
Ssns == { DigitRun(9) }

\* The secrets the server process may run with: none, or a configured one.
AuthEnvKeys == { NoValue, <<107, 51, 121>> }

\* The IVs crypto.randomBytes hands to the signups: two different ones.
SignupIvs == {IvOf(1), IvOf(2)}

\* A call: the procedure, where it stands, its parsed input (raw is the email
\* as the client sent it), the user row it read, the token it signed, and what
\* it answered.
NewRequest(op, pc, email, password, ssnIn) ==
    [op |-> op, pc |-> pc, email |-> email, password |-> password, ssn |-> ssnIn,
     user |-> NoUser, token |-> NoToken, status |-> "pending", cookie |-> NoToken,
     ctxUser |-> FALSE, raw |-> email]

\* The call has returned or thrown: status is set, and cookie is the
\* Set-Cookie value, if any.
Finish(req, status, cookie) == [req EXCEPT !.pc = "done", !.status = status, !.cookie = cookie]

\* The tokens a client may hold: those handed out in Set-Cookie headers so
\* far, and those of the sessions the store already had.
IssuedTokens ==
    {reqs[k].cookie : k \in {j \in DOMAIN reqs : reqs[j].cookie \notin {NoToken, Cleared}}}
        \cup {sessions[i].token : i \in DOMAIN sessions}

\* The Cookie header after split("; ") and the split of each cookie at its
\* first "=": a sequence of key/value pairs.  cookiesObj.session is the value
\* of the last pair named session (Object.fromEntries keeps the last entry of
\* a repeated key), and undefined when there is none.
cookiesObjSession(header) ==
    LET hits == {i \in DOMAIN header : header[i].key = "session"}
    IN  IF hits = {} THEN NoToken
        ELSE header[CHOOSE i \in hits : \A j \in hits : j <= i].val

\* The headers a client may send: no cookie, the session cookie alone, with
\* another cookie on either side, and a stale session cookie before the
\* current one.
OtherCookie == [key |-> "theme", val |-> NoToken]
SessionCookie(t) == [key |-> "session", val |-> t]
CookieHeaders ==
    {<< >>, <<OtherCookie>>}
        \cup {<<SessionCookie(t)>> : t \in IssuedTokens}
        \cup {<<OtherCookie, SessionCookie(t)>> : t \in IssuedTokens}
        \cup {<<SessionCookie(t), OtherCookie>> : t \in IssuedTokens}
        \cup {<<SessionCookie(u), SessionCookie(t)>> : u, t \in IssuedTokens}

\* The seconds that may have passed when the clock is read.
ClockReadings == {t \in {clock, clock + 1} : t <= MaxClock}

(***************************************************************************)
(* signup                                                                  *)
(***************************************************************************)

\* Variant: a conflicting signup drops the sessions of the user it found.
SignupLookup_dropSessions ==
    /\ Len(reqs) < MaxRequests
    /\ \E raw \in Emails, password \in {GoodPassword}, ssnIn \in Ssns :
         LET req == [NewRequest("signup", "SignupInsertUser", toLowerCase(raw), password, ssnIn)
                        EXCEPT !.raw = raw]
             existingUser == UserByEmail(req.email)
         IN  /\ reqs' = Append(reqs, IF existingUser # NoUser
                                     THEN Finish(req, "CONFLICT", NoToken)
                                     ELSE req)
             /\ sessions' = DeleteSessionsOfUser(existingUser.id)
    /\ UNCHANGED <<users, clock, procVars, codecVars, fundVars, dobVars, formVars>>

\* The input is parsed (email lower-cased) and the existing user looked up;
\* CONFLICT when there is one.
SignupLookup ==
    /\ Len(reqs) < MaxRequests
    /\ \E raw \in Emails, password \in {GoodPassword}, ssnIn \in Ssns :
         LET req == [NewRequest("signup", "SignupInsertUser", toLowerCase(raw), password, ssnIn)
                        EXCEPT !.raw = raw]
             existingUser == UserByEmail(req.email)
         IN  reqs' = Append(reqs, IF existingUser # NoUser
                                  THEN Finish(req, "CONFLICT", NoToken)
                                  ELSE req)
    /\ UNCHANGED <<users, sessions, clock, procVars, codecVars, fundVars, dobVars, formVars>>

\* The password is hashed and the user row inserted, its ssn encrypted.
SignupInsertUser(k) ==
    /\ reqs[k].pc = "SignupInsertUser"
    /\ \E iv \in SignupIvs :
         users' = InsertUser(SignupUserValues(reqs[k], bcryptHash(reqs[k].password), iv))
    /\ reqs' = [reqs EXCEPT ![k].pc = "SignupFetchUser"]
    /\ UNCHANGED <<sessions, clock, procVars, codecVars, fundVars, dobVars, formVars>>

\* The created user is fetched by email and the token signed.
SignupFetchUser(k) ==
    /\ reqs[k].pc = "SignupFetchUser"
    /\ LET user == UserByEmail(reqs[k].email)
       IN  IF user = NoUser
           THEN /\ reqs' = [reqs EXCEPT ![k] = Finish(@, "INTERNAL_SERVER_ERROR", NoToken)]
                /\ UNCHANGED clock
           ELSE \E t \in ClockReadings :
                  /\ clock' = t
                  /\ reqs' = [reqs EXCEPT ![k].pc = "SignupDeleteSessions",
                                          ![k].user = user,
                                          ![k].token = jwtSign(user.id, t)]
    /\ UNCHANGED <<users, sessions, procVars, codecVars, fundVars, dobVars, formVars>>

\* Invalidate all previous sessions for this user.
SignupDeleteSessions(k) ==
    /\ reqs[k].pc = "SignupDeleteSessions"
    /\ sessions' = DeleteSessionsOfUser(reqs[k].user.id)
    /\ reqs' = [reqs EXCEPT ![k].pc = "SignupInsertSession"]
    /\ UNCHANGED <<users, clock, procVars, codecVars, fundVars, dobVars, formVars>>

\* The session is inserted, the cookie set and the user returned.
SignupInsertSession(k) ==
    /\ reqs[k].pc = "SignupInsertSession"
    /\ sessions' = InsertSession(reqs[k].user.id, reqs[k].token)
    /\ reqs' = [reqs EXCEPT ![k] = Finish(@, "OK", @.token)]
    /\ UNCHANGED <<users, clock, procVars, codecVars, fundVars, dobVars, formVars>>

(***************************************************************************)
(* login                                                                   *)
(***************************************************************************)

\* The user is looked up by the email as given; UNAUTHORIZED when none.
LoginLookup ==
    /\ Len(reqs) < MaxRequests
    /\ \E email \in Emails, password \in Passwords :
         LET req == NewRequest("login", "LoginCompare", email, password, << >>)
             user == UserByEmail(email)
         IN  reqs' = Append(reqs, IF user = NoUser
                                  THEN Finish(req, "UNAUTHORIZED", NoToken)
                                  ELSE [req EXCEPT !.user = user])
    /\ UNCHANGED <<users, sessions, clock, procVars, codecVars, fundVars, dobVars, formVars>>

\* Variant: the user's sessions are deleted before the password is compared.
LoginCompare_deleteFirst(k) ==
    /\ reqs[k].pc = "LoginCompare"
    /\ sessions' = DeleteSessionsOfUser(reqs[k].user.id)
    /\ IF ~bcryptCompare(reqs[k].password, reqs[k].user.password)
       THEN /\ reqs' = [reqs EXCEPT ![k] = Finish(@, "UNAUTHORIZED", NoToken)]
            /\ UNCHANGED clock
       ELSE \E t \in ClockReadings :
              /\ clock' = t
              /\ reqs' = [reqs EXCEPT ![k].pc = "LoginDeleteSessions",
                                      ![k].token = jwtSign(reqs[k].user.id, t)]
    /\ UNCHANGED <<users, procVars, codecVars, fundVars, dobVars, formVars>>

\* The password is compared; UNAUTHORIZED when wrong, else the token is signed.
LoginCompare(k) ==
    /\ reqs[k].pc = "LoginCompare"
    /\ IF ~bcryptCompare(reqs[k].password, reqs[k].user.password)
       THEN /\ reqs' = [reqs EXCEPT ![k] = Finish(@, "UNAUTHORIZED", NoToken)]
            /\ UNCHANGED clock
       ELSE \E t \in ClockReadings :
              /\ clock' = t
              /\ reqs' = [reqs EXCEPT ![k].pc = "LoginDeleteSessions",
                                      ![k].token = jwtSign(reqs[k].user.id, t)]
    /\ UNCHANGED <<users, sessions, procVars, codecVars, fundVars, dobVars, formVars>>

\* Invalidate any existing sessions for this user.
LoginDeleteSessions(k) ==
    /\ reqs[k].pc = "LoginDeleteSessions"
    /\ sessions' = DeleteSessionsOfUser(reqs[k].user.id)
    /\ reqs' = [reqs EXCEPT ![k].pc = "LoginInsertSession"]
    /\ UNCHANGED <<users, clock, procVars, codecVars, fundVars, dobVars, formVars>>

\* The session is inserted, the cookie set and the user returned.
LoginInsertSession(k) ==
    /\ reqs[k].pc = "LoginInsertSession"
    /\ sessions' = InsertSession(reqs[k].user.id, reqs[k].token)
    /\ reqs' = [reqs EXCEPT ![k] = Finish(@, "OK", @.token)]
    /\ UNCHANGED <<users, clock, procVars, codecVars, fundVars, dobVars, formVars>>

(***************************************************************************)
(* logout                                                                  *)
(***************************************************************************)

\* The session cookie is read; with ctx.user and a token the delete is
\* awaited, otherwise the cookie is cleared and the call returns at once.
\* ctx.user is made by the tRPC context, whatever the cookie.
LogoutStart ==
    /\ Len(reqs) < MaxRequests
    /\ \E ctxUser \in BOOLEAN, header \in CookieHeaders :
         LET token == cookiesObjSession(header)
             req == [NewRequest("logout", "LogoutDelete", << >>, << >>, << >>)
                        EXCEPT !.token = token, !.ctxUser = ctxUser]
         IN  reqs' = Append(reqs, IF ctxUser /\ token # NoToken
                                  THEN req
                                  ELSE Finish(req, IF ctxUser THEN "Logged out successfully"
                                                   ELSE "No active session", Cleared))
    /\ UNCHANGED <<users, sessions, clock, procVars, codecVars, fundVars, dobVars, formVars>>

\* The sessions with the cookie's token are deleted and the cookie cleared.
LogoutDelete(k) ==
    /\ reqs[k].pc = "LogoutDelete"
    /\ sessions' = DeleteSessionsWithToken(reqs[k].token)
    /\ reqs' = [reqs EXCEPT ![k] = Finish(@, "Logged out successfully", Cleared)]
    /\ UNCHANGED <<users, clock, procVars, codecVars, fundVars, dobVars, formVars>>

AuthInit ==
    /\ \E e \in AuthEnvKeys : LoadModule(e)
    /\ CodecIdle
    /\ FundIdle
    /\ DobIdle
    /\ FormIdle
    /\ users = << >>
    /\ sessions = << >>
    /\ reqs = << >>
    /\ clock = 0

Next ==
    \/ SignupLookup
    \/ \E k \in DOMAIN reqs : SignupInsertUser(k)
    \/ \E k \in DOMAIN reqs : SignupFetchUser(k)
    \/ \E k \in DOMAIN reqs : SignupDeleteSessions(k)
    \/ \E k \in DOMAIN reqs : SignupInsertSession(k)
    \/ LoginLookup
    \/ \E k \in DOMAIN reqs : LoginCompare(k)
    \/ \E k \in DOMAIN reqs : LoginDeleteSessions(k)
    \/ \E k \in DOMAIN reqs : LoginInsertSession(k)
    \/ LogoutStart
    \/ \E k \in DOMAIN reqs : LogoutDelete(k)

Spec == AuthInit /\ [][Next]_vars

\* 'b@x.io' and 'c@x.io'.
EarlierEmails == << <<98, 64, 120, 46, 105, 111>>, <<99, 64, 120, 46, 105, 111>> >>

\* The server starts on a database that two users signed up to earlier, each
\* with the session of that signup.
EarlierInit ==
    /\ LoadModule(<<107, 51, 121>>)
    /\ CodecIdle
    /\ FundIdle
    /\ DobIdle
    /\ FormIdle
    /\ users = [i \in 1..2 |->
                   [id |-> i, email |-> EarlierEmails[i], password |-> bcryptHash(GoodPassword),
                    ssn |-> StoredForm(ENCRYPTION_KEY, IvOf(i), DigitRun(9))]]
    /\ sessions = [i \in 1..2 |->
                      [userId |-> i, token |-> jwtSign(i, 0), expiresAt |-> SevenDays]]
    /\ reqs = << >>
    /\ clock = 0

SpecEarlier == EarlierInit /\ [][Next]_vars

(***************************************************************************)
(* The email and password rules: SignupPage's register("email") and        *)
(* register("password"), and the email and password of the signup schema.  *)
(***************************************************************************)

At == 64
Underscore == 95
Percent == 37
Apostrophe == 39
MinPasswordLength == 8

IsUpper(c) == c >= 65 /\ c <= 90
IsLower(c) == c >= 97 /\ c <= 122
IsLetter(c) == IsUpper(c) \/ IsLower(c)
IsAlnum(c) == IsLetter(c) \/ IsDigit(c)

\* String.prototype.endsWith.
endsWith(str, suffix) ==
    /\ Len(str) >= Len(suffix)
    /\ SubSeq(str, Len(str) - Len(suffix) + 1, Len(str)) = suffix

\* /^[a-zA-Z0-9._%+-]+@[a-zA-Z0-9.-]+\.[a-zA-Z]{2,}$/, with the @ at a and
\* the dot before the final letters at d.
EmailPattern(value) ==
    \E a \in 1..Len(value), d \in 1..Len(value) :
        /\ value[a] = At
        /\ value[d] = Dot
        /\ a >= 2
        /\ d >= a + 2
        /\ Len(value) - d >= 2
        /\ \A i \in 1..(a - 1) :
               IsAlnum(value[i]) \/ value[i] \in {Dot, Underscore, Percent, Plus, Hyphen}
        /\ \A i \in (a + 1)..(d - 1) : IsAlnum(value[i]) \/ value[i] \in {Dot, Hyphen}
        /\ \A i \in (d + 1)..Len(value) : IsLetter(value[i])

\* ['.con', '.cmo', '.cm', '.co.', '.om', '.ner', '.ogr'], the list of the
\* form's commonTypos rule and of the schema's refine.
commonTypos ==
    << <<46, 99, 111, 110>>, <<46, 99, 109, 111>>, <<46, 99, 109>>, <<46, 99, 111, 46>>,
       <<46, 111, 109>>, <<46, 110, 101, 114>>, <<46, 111, 103, 114>> >>

noUppercase(value) ==
    IF value # toLowerCase(value)
    THEN "Email will be stored in lowercase. Please use lowercase letters."
    ELSE Valid

commonTyposRule(value) ==
    LET lowerValue == toLowerCase(value)
    IN  IF \E i \in DOMAIN commonTypos : endsWith(lowerValue, commonTypos[i])
        THEN "Did you mean .com? Check for typos in domain extension."
        ELSE Valid

\* register("email"): required, pattern, then the validate functions.
EmailError(value) ==
    IF value = << >> THEN "Email is required"
    ELSE IF ~EmailPattern(value) THEN "Invalid email address."
    ELSE IF noUppercase(value) # Valid THEN noUppercase(value)
    ELSE commonTyposRule(value)

\* z.string().email(): zod's email expression,
\* /^(?!\.)(?!.*\.\.)([A-Z0-9_'+\-\.]*)[A-Z0-9_+-]@([A-Z0-9][A-Z0-9\-]*\.)+[A-Z]{2,}$/i.
ZodEmail(str) ==
    /\ str # << >>
    /\ str[1] # Dot
    /\ \A i \in 1..(Len(str) - 1) : ~(str[i] = Dot /\ str[i + 1] = Dot)
    /\ \E a \in 2..Len(str) :
           /\ str[a] = At
           /\ \A i \in 1..(a - 1) :
                  IsAlnum(str[i]) \/ str[i] \in {Underscore, Apostrophe, Plus, Hyphen, Dot}
           /\ IsAlnum(str[a - 1]) \/ str[a - 1] \in {Underscore, Plus, Hyphen}
           /\ LET labels == split(SubSeq(str, a + 1, Len(str)), Dot)
                  n == Len(labels)
              IN  /\ n >= 2
                  /\ Len(labels[n]) >= 2
                  /\ \A i \in 1..Len(labels[n]) : IsLetter(labels[n][i])
                  /\ \A k \in 1..(n - 1) :
                         /\ labels[k] # << >>
                         /\ IsAlnum(labels[k][1])
                         /\ \A i \in 2..Len(labels[k]) :
                                IsAlnum(labels[k][i]) \/ labels[k][i] = Hyphen

\* The email of the signup schema: email(), toLowerCase(), then the refine on
\* the lower-cased string.
EmailSchemaError(raw) ==
    IF ~ZodEmail(raw) THEN "Invalid email format"
    ELSE IF \E i \in DOMAIN commonTypos : endsWith(toLowerCase(raw), commonTypos[i])
         THEN "Invalid domain extension. Check for typos (e.g., .con should be .com)"
    ELSE Valid

\* The characters of /[!@#$%^&*(),.?":{}|<>]/.
SpecialChars ==
    {33, 64, 35, 36, 37, 94, 38, 42, 40, 41, 44, 46, 63, 34, 58, 123, 125, 124, 60, 62}

\* ["password", "12345678", "qwerty"].
commonPasswords ==
    { <<112, 97, 115, 115, 119, 111, 114, 100>>, <<49, 50, 51, 52, 53, 54, 55, 56>>,
      <<113, 119, 101, 114, 116, 121>> }

Contains(str, Test(_)) == \E i \in 1..Len(str) : Test(str[i])
IsSpecial(c) == c \in SpecialChars

\* Variant: no special character is asked for.
hasSpecialChar_off(value) == Valid

hasSpecialChar(value) ==
    IF Contains(value, IsSpecial) THEN Valid
    ELSE "Password must contain a special character (!@#$%^&*...)"

\* register("password"): required, minLength, then the validate functions.
PasswordError(value) ==
    IF value = << >> THEN "Password is required"
    ELSE IF Len(value) < MinPasswordLength THEN "Password must be at least 8 characters"
    ELSE IF toLowerCase(value) \in commonPasswords THEN "Password is too common"
    ELSE IF ~Contains(value, IsDigit) THEN "Password must contain a number"
    ELSE IF ~Contains(value, IsUpper) THEN "Password must contain an uppercase letter"
    ELSE IF ~Contains(value, IsLower) THEN "Password must contain a lowercase letter"
    ELSE hasSpecialChar(value)

\* The password of the signup schema: min(8) and the four refines.
PasswordSchemaError(value) ==
    IF Len(value) < MinPasswordLength THEN "Password must be at least 8 characters"
    ELSE IF ~Contains(value, IsDigit) THEN "Password must contain at least one number"
    ELSE IF ~Contains(value, IsUpper)
         THEN "Password must contain at least one uppercase letter"
    ELSE IF ~Contains(value, IsLower)
         THEN "Password must contain at least one lowercase letter"
    ELSE IF ~Contains(value, IsSpecial)
         THEN "Password must contain at least one special character"
    ELSE Valid

(***************************************************************************)
(* Inputs of the signup form                                               *)
(***************************************************************************)

\* How far the password lengths tried reach around the minimum length.
PasswordLenMargin == 1

\* 'a', 'a.b' and 'B'; 'x', 'x.co' and 'x-y'.
EmailLocals == { <<97>>, <<97, 46, 98>>, <<66>> }
EmailDomains == { <<120>>, <<120, 46, 99, 111>>, <<120, 45, 121>> }
\* com, the typo extensions, some generic and some country-code top-level
\* domains (cm, om, uk, de, io, co, jp), and CM, Con, c and 'co.'.
EmailTlds ==
    { <<99, 111, 109>>, <<99, 111, 110>>, <<99, 109, 111>>, <<99, 109>>, <<111, 109>>,
      <<110, 101, 114>>, <<111, 103, 114>>, <<110, 101, 116>>, <<111, 114, 103>>, <<117, 107>>,
      <<100, 101>>, <<105, 111>>, <<99, 111>>, <<106, 112>>, <<67, 77>>,
      <<67, 111, 110>>, <<99>>, <<99, 111, 46>> }
\* '', 'a', 'a@x', '@x.com', 'a@.com', 'a..b@x.com', '.a@x.com', 'a.@x.com',
\* 'a%b@x.com', "a'b@x.com", 'a@-x.com', 'a@x..com', 'a@x.c0m', 'a b@x.com',
\* 'a@x.com.cm', 'a@x.co.uk'.
EmailInputs ==
    {local \o <<At>> \o domain \o <<Dot>> \o tld :
         local \in EmailLocals, domain \in EmailDomains, tld \in EmailTlds}
    \cup { << >>,
           <<97>>,
           <<97, 64, 120>>,
           <<64, 120, 46, 99, 111, 109>>,
           <<97, 64, 46, 99, 111, 109>>,
           <<97, 46, 46, 98, 64, 120, 46, 99, 111, 109>>,
           <<46, 97, 64, 120, 46, 99, 111, 109>>,
           <<97, 46, 64, 120, 46, 99, 111, 109>>,
           <<97, 37, 98, 64, 120, 46, 99, 111, 109>>,
           <<97, 39, 98, 64, 120, 46, 99, 111, 109>>,
           <<97, 64, 45, 120, 46, 99, 111, 109>>,
           <<97, 64, 120, 46, 46, 99, 111, 109>>,
           <<97, 64, 120, 46, 99, 48, 109>>,
           <<97, 32, 98, 64, 120, 46, 99, 111, 109>>,
           <<97, 64, 120, 46, 99, 111, 109, 46, 99, 109>>,
           <<97, 64, 120, 46, 99, 111, 46, 117, 107>> }

\* A digit, an uppercase letter, a lowercase letter and a special character.
ClassChars == <<49, 65, 97, 33>>

\* The string of n characters that cycles through the characters of
\* ClassChars at the positions in chosen.
Cycle(chosen, n) ==
    LET kth(k) == CHOOSE i \in chosen : Cardinality({j \in chosen : j < i}) = k - 1
    IN  [i \in 1..n |-> ClassChars[kth(((i - 1) % Cardinality(chosen)) + 1)]]

\* 'Passw0rd'.
NoSpecial == <<80, 97, 115, 115, 119, 48, 114, 100>>

\* Every mix of the four classes at every length around the minimum,
\* 'Passw0rd' followed by each special character and by some other
\* punctuation, and password1, 12345678, password, qwerty, PASSWORD, Password,
\* QWERTY, Password1, '', 'Passw0rd!', 'passw0rd!' with a capital E acute,
\* 'Pa1!', 'Pass w0rd', 'PASSWORD1!', 'password1!'.
PasswordInputs ==
    {Cycle(chosen, n) : chosen \in (SUBSET DOMAIN ClassChars) \ {{}},
                        n \in (MinPasswordLength - PasswordLenMargin)
                                  ..(MinPasswordLength + PasswordLenMargin)}
    \cup {NoSpecial \o <<c>> : c \in SpecialChars \cup {Hyphen, Underscore, Apostrophe, Space, 126, 59, 91, 47, 61}}
    \cup { <<112, 97, 115, 115, 119, 111, 114, 100, 49>>,
           <<49, 50, 51, 52, 53, 54, 55, 56>>,
           <<112, 97, 115, 115, 119, 111, 114, 100>>,
           <<113, 119, 101, 114, 116, 121>>,
           <<80, 65, 83, 83, 87, 79, 82, 68>>,
           <<80, 97, 115, 115, 119, 111, 114, 100>>,
           <<81, 87, 69, 82, 84, 89>>,
           <<80, 97, 115, 115, 119, 111, 114, 100, 49>>,
           << >>,
           <<80, 97, 115, 115, 119, 48, 114, 100, 33>>,
           <<112, 97, 115, 115, 119, 48, 114, 100, 33, 201>>,
           <<80, 97, 49, 33>>,
           <<80, 97, 115, 115, 32, 119, 48, 114, 100>>,
           <<80, 65, 83, 83, 87, 79, 82, 68, 49, 33>>,
           <<112, 97, 115, 115, 119, 111, 114, 100, 49, 33>> }

\* 'a@x.io'.
TestEmail == <<97, 64, 120, 46, 105, 111>>

(***************************************************************************)
(* The signup form's first step and the signup procedure's input parsing:  *)
(* the fields hold some input; trigger runs the form rules, and the        *)
(* procedure parses the same values with its schema.                       *)
(***************************************************************************)

SignupFormInit ==
    /\ ProcIdle
    /\ CodecIdle
    /\ FundIdle
    /\ DobIdle
    /\ AuthIdle
    /\ signupErrors = NotParsed
    /\ step = 1
    /\ clicks = << >>
    /\ \/ emailField \in EmailInputs /\ passwordField = GoodPassword
       \/ emailField = TestEmail /\ passwordField \in PasswordInputs

\* The form rules of the email and password fields.
ValidateSignupFields ==
    /\ signupErrors.emailForm = "pending"
    /\ signupErrors' = [signupErrors EXCEPT !.emailForm = EmailError(emailField),
                                            !.passwordForm = PasswordError(passwordField)]
    /\ UNCHANGED <<emailField, passwordField, step, clicks,
                   procVars, codecVars, fundVars, dobVars, authVars>>

\* The signup procedure's schema on the same two values.
ParseSignupInput ==
    /\ signupErrors.emailSchema = "pending"
    /\ signupErrors' = [signupErrors EXCEPT !.emailSchema = EmailSchemaError(emailField),
                                            !.passwordSchema = PasswordSchemaError(passwordField)]
    /\ UNCHANGED <<emailField, passwordField, step, clicks,
                   procVars, codecVars, fundVars, dobVars, authVars>>

SignupFormNext ==
    \/ ValidateSignupFields
    \/ ParseSignupInput

SpecSignupForm == SignupFormInit /\ [][SignupFormNext]_vars

(***************************************************************************)
(* The signup wizard: the step, the Next and Previous buttons.  nextStep    *)
(* awaits trigger; the clicks and the settling of the pending validations  *)
(* interleave.  A click runs the handler of the latest render, so the step *)
(* a handler closes over is the step at the click.                         *)
(***************************************************************************)

\* Next is offered while step < 3.
LastStep == 3

\* How many times Next is clicked.
MaxClicks == 3

\* 'a@x.con' and 'password1'.
TypoEmail == <<97, 64, 120, 46, 99, 111, 110>>
WeakPassword == <<112, 97, 115, 115, 119, 111, 114, 100, 49>>

\* trigger(fieldsToValidate) for the fields of a step: email and password of
\* step 1, dateOfBirth of step 2; the other fields of the two steps are taken
\* to hold acceptable input.
FieldsValid(s) ==
    IF s = 1 THEN EmailError(emailField) = Valid /\ PasswordError(passwordField) = Valid
    ELSE IF s = 2 THEN DateOfBirthError(dateOfBirth) = Valid
    ELSE TRUE

WizardInit ==
    /\ ProcIdle
    /\ CodecIdle
    /\ FundIdle
    /\ AuthIdle
    /\ tzOffset = 0
    /\ now = DaysFromCivil(D3(2026, 11, 6)) * HoursPerDay + 12
    /\ dateOfBirth \in {D3(1990, 1, 1), D3(2020, 1, 1), NoDate}
    /\ dobResult = NotRun
    /\ emailField \in {TestEmail, TypoEmail}
    /\ passwordField \in {GoodPassword, WeakPassword}
    /\ signupErrors = NotParsed
    /\ step = 1
    /\ clicks = << >>

\* Next is clicked: nextStep runs up to its await of trigger.
nextStep ==
    /\ step < LastStep
    /\ Len(clicks) < MaxClicks
    /\ clicks' = Append(clicks, [step |-> step, pc |-> "trigger", isValid |-> FALSE])
    /\ UNCHANGED <<step, emailField, passwordField, signupErrors,
                   procVars, codecVars, fundVars, dobVars, authVars>>

\* Variant: setStep with an updater, (s) => s + 1.
nextStepResume_updater(k) ==
    /\ clicks[k].pc = "trigger"
    /\ \E isValid \in (IF clicks[k].step = step THEN {FieldsValid(step)} ELSE BOOLEAN) :
         /\ clicks' = [clicks EXCEPT ![k].pc = "done", ![k].isValid = isValid]
         /\ step' = IF isValid THEN step + 1 ELSE step
    /\ UNCHANGED <<emailField, passwordField, signupErrors,
                   procVars, codecVars, fundVars, dobVars, authVars>>

\* trigger settles and nextStep goes on: setStep(step + 1), with the step it
\* closed over, when the fields are valid.  The fields of a step that is no
\* longer shown may validate either way.
nextStepResume(k) ==
    /\ clicks[k].pc = "trigger"
    /\ \E isValid \in (IF clicks[k].step = step THEN {FieldsValid(step)} ELSE BOOLEAN) :
         /\ clicks' = [clicks EXCEPT ![k].pc = "done", ![k].isValid = isValid]
         /\ step' = IF isValid THEN clicks[k].step + 1 ELSE step
    /\ UNCHANGED <<emailField, passwordField, signupErrors,
                   procVars, codecVars, fundVars, dobVars, authVars>>

\* Previous is clicked: setStep(step - 1).
prevStep ==
    /\ step > 1
    /\ step' = step - 1
    /\ UNCHANGED <<clicks, emailField, passwordField, signupErrors,
                   procVars, codecVars, fundVars, dobVars, authVars>>

WizardNext ==
    \/ nextStep
    \/ \E k \in DOMAIN clicks : nextStepResume(k)
    \/ prevStep

SpecWizard == WizardInit /\ [][WizardNext]_vars

(***************************************************************************)
(* Claims about the codec                                                  *)
(***************************************************************************)

\* C1 as stated: whatever the plaintext and the IV, decryptSSN of the value
\* encryptSSN returned is exactly the plaintext.
C1_RoundTripAnyString ==
    (last.op = "decryptSSN" /\ ~last.tampered) => last.out = Ok(ssn)

\* C1, amended: for every well-formed plaintext (no surrogate outside a pair;
\* every 9-digit SSN is one) and every IV, decryptSSN of the value encryptSSN
\* returned is exactly the plaintext.
C1_RoundTrip ==
    (last.op = "decryptSSN" /\ ~last.tampered /\ WellFormed(ssn)) => last.out = Ok(ssn)

\* C1 witness: the 9-digit SSN of the tests has been encrypted and decrypted.
C1_Witness ==
    /\ last.op = "decryptSSN"
    /\ ~last.tampered
    /\ ssn = <<49, 50, 51, 52, 53, 54, 55, 56, 57>>
    /\ last.out = Ok(ssn)

\* C4: decryptSSN of a stored value with one character of its ciphertext
\* portion replaced by another hex character fails with an error (and so
\* never returns a plaintext other than the original).
C4_TamperDetected ==
    (last.op = "decryptSSN" /\ last.tampered) => ~last.out.ok

\* The last four code units of str, written without the model's slice.
LastFour(str) == <<str[Len(str) - 3], str[Len(str) - 2], str[Len(str) - 1], str[Len(str)]>>

\* C9 as stated: for every P of at least 4 characters without ':', maskSSN of P
\* and maskSSN of a stored form of P both return '***-**-' followed by exactly
\* the last 4 characters of P.
C9_MaskAnyString ==
    (last.op = "maskSSN" /\ Len(ssn) >= 4 /\ ~includes(ssn, Colon))
        => last.out = Ok(<<42, 42, 42, 45, 42, 42, 45>> \o LastFour(ssn))

\* C9, amended: the same for every well-formed P of at least 4 characters
\* without ':'.
C9_MaskStable ==
    (last.op = "maskSSN" /\ Len(ssn) >= 4 /\ ~includes(ssn, Colon) /\ WellFormed(ssn))
        => last.out = Ok(<<42, 42, 42, 45, 42, 42, 45>> \o LastFour(ssn))

\* C9 witness: maskSSN has been called on a stored form of the 9-digit SSN.
C9_Witness ==
    /\ last.op = "maskSSN"
    /\ last.of >= 1
    /\ ssn = <<49, 50, 51, 52, 53, 54, 55, 56, 57>>
    /\ last.out = Ok(<<42, 42, 42, 45, 42, 42, 45, 54, 55, 56, 57>>)

LuhnReference(str) ==
    SumSeq([k \in 1..Len(str) |->
               LET d == str[Len(str) - k + 1] - 48
               IN  IF k % 2 = 0
                   THEN (IF 2 * d > 9 THEN 2 * d - 9 ELSE 2 * d)
                   ELSE d])

CardValidated == fundErrors.validated /\ fundingType = "card"
BankValidated == fundErrors.validated /\ fundingType = "bank"

\* C5: for every digit string of length 13 to 19 the validator's checksum is
\* the reference Luhn sum and the string fails the format rule exactly when
\* that sum is not divisible by 10; 4532015112830366 passes.
C5_LuhnMatchesReference ==
    CardValidated =>
        LET cleaned == StripSeparators(accountNumber)
        IN  /\ AllDigits(cleaned, 13, 19) =>
                  /\ LuhnSum(cleaned) = LuhnReference(cleaned)
                  /\ (fundErrors.accountNumber = "Invalid card number")
                         <=> (LuhnReference(cleaned) % 10 # 0)
                  /\ (validFormat(accountNumber) = Valid)
                         <=> (LuhnReference(cleaned) % 10 = 0)
            /\ accountNumber = TestCard => fundErrors.accountNumber = Valid

\* C5 witness: the 16-digit test card has been validated and has passed.
C5_Witness ==
    /\ CardValidated
    /\ accountNumber = TestCard
    /\ LuhnSum(accountNumber) % 10 = 0
    /\ fundErrors.accountNumber = Valid

\* The nine ASCII digits d0..d8 of a routing number and the weighted sum.
AbaReference(str) ==
    LET d(k) == str[k + 1] - 48
    IN  3 * (d(0) + d(3) + d(6)) + 7 * (d(1) + d(4) + d(7)) + 1 * (d(2) + d(5) + d(8))

IsNineAsciiDigits(value) ==
    /\ value # NoValue
    /\ Len(value) = 9
    /\ \A i \in 1..9 : value[i] \in 48..57

\* C6: in bank mode the routing number is accepted iff it is exactly 9 ASCII
\* digits whose weighted sum 3,7,1 is divisible by 10; 021000021 is accepted
\* and 123456789 is rejected.
C6_RoutingAcceptedIff ==
    BankValidated =>
        /\ (fundErrors.routingNumber = Valid)
               <=> (IsNineAsciiDigits(routingNumber) /\ AbaReference(routingNumber) % 10 = 0)
        /\ routingNumber = TestRouting => fundErrors.routingNumber = Valid
        /\ routingNumber = <<49, 50, 51, 52, 53, 54, 55, 56, 57>>
               => fundErrors.routingNumber = "Invalid routing number"

\* C6 witness: 021000021 has been validated in bank mode and accepted.
C6_Witness ==
    /\ BankValidated
    /\ routingNumber = TestRouting
    /\ fundErrors.routingNumber = Valid

\* The number the first n digits of a digit string spell, -1 when it is shorter.
RECURSIVE PrefixNumber(_, _)
PrefixNumber(str, n) ==
    IF Len(str) < n THEN -1
    ELSE IF n = 0 THEN 0
    ELSE 10 * PrefixNumber(str, n - 1) + (str[n] - 48)

\* The brand ranges: Visa 4; Mastercard 51-55 and 2221-2720; Amex 34 and 37;
\* Discover 6011, 622126-622925, 644-649 and 65.
KnownBrand(str) ==
    \/ PrefixNumber(str, 1) = 4
    \/ PrefixNumber(str, 2) \in 51..55
    \/ PrefixNumber(str, 4) \in 2221..2720
    \/ PrefixNumber(str, 2) \in {34, 37}
    \/ PrefixNumber(str, 4) = 6011
    \/ PrefixNumber(str, 6) \in 622126..622925
    \/ PrefixNumber(str, 3) \in 644..649
    \/ PrefixNumber(str, 2) = 65

\* C7: in card mode the account number is accepted iff, with spaces and
\* hyphens removed, it is 13 to 19 digits, passes the Luhn check and has the
\* prefix of a known brand.
C7_CardAcceptedIff ==
    CardValidated =>
        LET cleaned == SelectSeq(accountNumber, LAMBDA c : c # Space /\ c # Hyphen)
        IN  (fundErrors.accountNumber = Valid)
                <=> /\ AllDigits(cleaned, 13, 19)
                    /\ LuhnReference(cleaned) % 10 = 0
                    /\ KnownBrand(cleaned)

(***************************************************************************)
(* Claims about the date-of-birth rules                                    *)
(***************************************************************************)

\* The reference date: today's date where the validation runs, and the birth
\* date exactly 18 years before it.
ReferenceDate == CivilFromDays((now + tzOffset) \div 24)
EighteenthBirthday == D3(ReferenceDate.year - 18, ReferenceDate.month, ReferenceDate.day)

\* C8: for every reference date, the form rule and the schema refine accept
\* the birth date exactly 18 years earlier and reject the birth date one day
\* later than that.
C8_AgeBoundary ==
    IsCalendarDate(EighteenthBirthday) =>
        /\ dobResult.form # "pending" =>
              /\ dateOfBirth = EighteenthBirthday => dobResult.form = "true"
              /\ dateOfBirth = AddDays(EighteenthBirthday, 1) => dobResult.form # "true"
        /\ dobResult.schema # "pending" =>
              /\ dateOfBirth = EighteenthBirthday => dobResult.schema = "accepted"
              /\ dateOfBirth = AddDays(EighteenthBirthday, 1) => dobResult.schema = "rejected"

(***************************************************************************)
(* Claims about the auth router                                            *)
(***************************************************************************)

\* 32 hex characters, one ':', then a non-empty run of hex characters.
IsStoredForm(str) ==
    /\ Len(str) > 33
    /\ str[33] = 58
    /\ \A i \in 1..Len(str) : i # 33 => IsHexChar(str[i])

\* For each secret the process may run with, the pairs of an SSN and a stored
\* form of it under the key of that secret.
Encryptions ==
    [e \in AuthEnvKeys |->
        LET key == sha256(IF e = NoValue \/ e = << >> THEN DefaultKeyString ELSE e)
        IN  {<<plain, StoredForm(key, iv, plain)>> : plain \in Ssns, iv \in Ivs}]

\* C2: the ssn of every user row is the stored form encryptSSN produces under
\* the process key for the SSN a signup call for that email submitted (32 hex
\* characters of IV, ':', hex ciphertext), and is not that submitted SSN.
C2_StoredSsnEncrypted ==
    \A i \in DOMAIN users :
        /\ IsStoredForm(users[i].ssn)
        /\ \E k \in DOMAIN reqs :
             /\ reqs[k].op = "signup"
             /\ reqs[k].email = users[i].email
             /\ users[i].ssn # reqs[k].ssn
             /\ <<reqs[k].ssn, users[i].ssn>> \in Encryptions[envKey]

\* C2 witness: a signup has completed and its user row is in the table.
C2_Witness ==
    /\ \E k \in DOMAIN reqs : reqs[k].op = "signup" /\ reqs[k].status = "OK"
    /\ Len(users) >= 1
    /\ IsStoredForm(users[1].ssn)
    /\ decryptSSN(users[1].ssn) = Ok(<<49, 50, 51, 52, 53, 54, 55, 56, 57>>)

\* C3: whatever the calls and their interleaving, the sessions table holds at
\* most one row for each user.
C3_OneSessionPerUser ==
    \A i, j \in DOMAIN sessions : sessions[i].userId = sessions[j].userId => i = j

(***************************************************************************)
(* Claims about the process key                                            *)
(***************************************************************************)

\* C11: the key is the 32-byte digest of the secret the process was started
\* with (of the development string when there is none), whatever the length
\* of the secret, and no call of encryptSSN, decryptSSN or maskSSN changes the
\* key or the secret.
C11_KeySetOnce ==
    /\ [](Len(ENCRYPTION_KEY) = 32 /\ ENCRYPTION_KEY = sha256(KEY_STRING))
    /\ [][ENCRYPTION_KEY' = ENCRYPTION_KEY /\ envKey' = envKey]_vars

\* C11 witness: under a 3-character secret the key is 32 bytes after two
\* encryptSSN calls and a decryptSSN call that returned the plaintext.
C11_Witness ==
    /\ envKey = <<107, 51, 121>>
    /\ Len(ENCRYPTION_KEY) = 32
    /\ Len(enc) = 2
    /\ last.op = "decryptSSN"
    /\ last.out = Ok(ssn)

\* The stored forms of the SSNs under the key of the development string.
FallbackForms ==
    {StoredForm(sha256(DefaultKeyString), iv, plain) : plain \in Ssns, iv \in Ivs}

\* C12: when ENCRYPTION_KEY is unset or empty, no user row carries an SSN
\* encrypted under the key of the development string.
C12_NoFallbackKeyInStore ==
    (envKey = NoValue \/ envKey = << >>) =>
        \A i \in DOMAIN users : users[i].ssn \notin FallbackForms

\* C13: decryptSSN fails on a string without ':', on one whose part before
\* ':' is not the hex of 16 bytes, and on one whose ciphertext is cut or empty
\* (a value made under another key fails or not as its padding falls); and the
\* failure on a damaged stored value (one with ':') is not the outcome
\* decryptSSN has on the never-encrypted plaintext.
C13_MalformedRejected ==
    (last.op = "decryptSSN") =>
        /\ last.kind # "otherKey" => ~last.out.ok
        /\ (includes(last.arg, Colon) /\ ~includes(ssn, Colon))
               => last.out # decryptSSN(ssn)

\* A card number that passes the format rule: 13 to 19 digits and Luhn.
PassesFormat(str) == AllDigits(str, 13, 19) /\ LuhnReference(str) % 10 = 0

\* C14: a card number starting with 5 or 2 that passes the format rule is
\* accepted iff its first two digits are in 51..55 or its first four digits
\* are in 2221..2720.
C14_MastercardRange ==
    CardValidated =>
        LET cleaned == StripSeparators(accountNumber)
        IN  (PassesFormat(cleaned) /\ PrefixNumber(cleaned, 1) \in {2, 5}) =>
                ((fundErrors.accountNumber = Valid)
                     <=> \/ PrefixNumber(cleaned, 2) \in 51..55
                         \/ PrefixNumber(cleaned, 4) \in 2221..2720)

\* C15: a card number starting with 6 that passes the format rule is accepted
\* iff its prefix is 6011, or its first six digits are in 622126..622925, or
\* its first three digits are in 644..649, or its first two digits are 65.
C15_DiscoverRange ==
    CardValidated =>
        LET cleaned == StripSeparators(accountNumber)
        IN  (PassesFormat(cleaned) /\ PrefixNumber(cleaned, 1) = 6) =>
                ((fundErrors.accountNumber = Valid)
                     <=> \/ PrefixNumber(cleaned, 4) = 6011
                         \/ PrefixNumber(cleaned, 6) \in 622126..622925
                         \/ PrefixNumber(cleaned, 3) \in 644..649
                         \/ PrefixNumber(cleaned, 2) = 65)

\* The errors of the format rule of a card number.
FormatErrors ==
    {"Card number is required", "Card number must be 13-19 digits", "Invalid card number"}

\* C16: when the card number passes the Luhn check, every string that differs
\* from it in exactly one digit fails the Luhn check; 4532015112830366 passes
\* and 4532015112830367 fails.
C16_SingleDigitTamper ==
    CardValidated =>
        LET cleaned == StripSeparators(accountNumber)
        IN  /\ (fundErrors.accountNumber \notin FormatErrors) =>
                  \A pos \in 1..Len(cleaned), d \in 0..9 :
                      DigitChar(d) # cleaned[pos] =>
                          validFormat(ReplaceAt(cleaned, pos, DigitChar(d))) = "Invalid card number"
            /\ accountNumber = TestCard => fundErrors.accountNumber = Valid
            /\ accountNumber = ReplaceAt(TestCard, 16, 55) =>
                   fundErrors.accountNumber = "Invalid card number"

\* C16 witness: the test card with its last digit changed to 7 has been
\* validated and has failed the Luhn check.
C16_Witness ==
    /\ CardValidated
    /\ accountNumber = ReplaceAt(TestCard, 16, 55)
    /\ validFormat(TestCard) = Valid
    /\ fundErrors.accountNumber = "Invalid card number"

\* C17: a birth date later than the reference date is rejected by the form
\* rule and by the schema refine, however far in the future it is.
C17_FutureRejected ==
    (dateOfBirth # NoDate /\ DaysFromCivil(dateOfBirth) > DaysFromCivil(ReferenceDate)) =>
        /\ dobResult.form # "true"
        /\ dobResult.schema # "accepted"

\* C17 witness: west of UTC in the evening, tomorrow's date is already past
\* midnight UTC: notFuture lets it through, the age rule and the schema reject it.
C17_Witness ==
    /\ tzOffset < 0
    /\ dateOfBirth = AddDays(ReferenceDate, 1)
    /\ ParseDate(dateOfBirth) < now
    /\ dobResult.form = "You must be at least 18 years old to open an account"
    /\ dobResult.schema = "rejected"

\* The call has set a session cookie: a signup or login that returned.
LoggedIn(req) == req.op \in {"signup", "login"} /\ req.status = "OK"

\* C18: in the step in which a signup or login for a user returns, no row of
\* the sessions table carries a token that a signup or login for the same user
\* which had returned before was given.
C18_NewLoginInvalidates ==
    [][\A k \in DOMAIN reqs' :
          (LoggedIn(reqs'[k]) /\ ~(k \in DOMAIN reqs /\ LoggedIn(reqs[k]))) =>
              \A j \in DOMAIN reqs :
                  (j # k /\ LoggedIn(reqs[j]) /\ reqs[j].user.id = reqs'[k].user.id) =>
                      \A i \in DOMAIN sessions' : sessions'[i].token # reqs[j].token]_vars


(***************************************************************************)
(* C19: logout deletes the session                                         *)
(***************************************************************************)

\* The logout of an authenticated caller whose Cookie header carries a
\* session token has returned "Logged out successfully".
LoggedOut(req) ==
    /\ req.op = "logout"
    /\ req.ctxUser
    /\ req.token # NoToken
    /\ req.status = "Logged out successfully"

DotPositions(str) == {i \in 1..Len(str) : str[i] = Dot}
FirstDot(str) == CHOOSE i \in DotPositions(str) : \A j \in DotPositions(str) : i <= j
IntegerDigits(str) ==
    IF DotPositions(str) = {} THEN str ELSE SubSeq(str, 1, FirstDot(str) - 1)
DecimalDigits(str) ==
    IF DotPositions(str) = {} THEN << >> ELSE SubSeq(str, FirstDot(str) + 1, Len(str))

\* Digits with an optional decimal point and at most two decimals.
DecimalForm(str) ==
    /\ Cardinality(DotPositions(str)) <= 1
    /\ IntegerDigits(str) # << >>
    /\ \A i \in 1..Len(IntegerDigits(str)) : IsDigit(IntegerDigits(str)[i])
    /\ Len(DecimalDigits(str)) <= 2
    /\ \A i \in 1..Len(DecimalDigits(str)) : IsDigit(DecimalDigits(str)[i])

\* The value, in cents, of a string of that form.
CentsOf(str) ==
    LET decimals == DecimalDigits(str) \o <<DigitChar(0), DigitChar(0)>>
    IN  (PrefixNumber(IntegerDigits(str), Len(IntegerDigits(str))) * 100)
            + (DigitValue(decimals[1]) * 10) + DigitValue(decimals[2])

StartsWithZeroDigit(str) == Len(str) >= 2 /\ str[1] = DigitChar(0) /\ IsDigit(str[2])

AmountAcceptable(str) ==
    /\ DecimalForm(str)
    /\ ~StartsWithZeroDigit(str)
    /\ CentsOf(str) >= 1
    /\ CentsOf(str) <= 1000000

\* The amount handed to fundAccount is a whole number of cents from 1 to
\* 1,000,000.
WholeCents(x) ==
    /\ ~x.nan
    /\ ~x.neg
    /\ \A i \in 3..Len(x.frac) : x.frac[i] = 0
    /\ (x.whole * 100) + (FracDigit(x, 1) * 10) + FracDigit(x, 2) \in 1..1000000

\* C20: the amount field is accepted exactly when the string is digits with
\* an optional decimal point and at most two decimals, does not start with a
\* zero followed by another digit, and is worth 0.01 to 10000; 0, 0.00 and
\* 00123.45 are rejected and 0.01 is accepted; and every amount handed to the
\* fundAccount mutation is a whole number of cents between 1 and 1,000,000.
C20_AmountAcceptedIff ==
    /\ fundErrors.validated =>
           /\ (fundErrors.amount = Valid) <=> AmountAcceptable(amount)
           /\ amount \in {<<48>>, <<48, 46, 48, 48>>, <<48, 48, 49, 50, 51, 46, 52, 53>>}
                  => fundErrors.amount # Valid
           /\ amount = <<48, 46, 48, 49>> => fundErrors.amount = Valid
    /\ mutation.called =>
           /\ WholeCents(mutation.amount)
           /\ (mutation.amount.whole * 100) + (FracDigit(mutation.amount, 1) * 10)
                  + FracDigit(mutation.amount, 2) = CentsOf(amount)

\* 0.01 has been validated, accepted and handed to fundAccount as one cent.
C20_Witness ==
    /\ amount = <<48, 46, 48, 49>>
    /\ fundErrors.validated
    /\ fundErrors.amount = Valid
    /\ mutation.called
    /\ mutation.amount = OneCent


(***************************************************************************)
(* Claims about the signup form                                            *)
(***************************************************************************)

FieldsValidated == signupErrors.emailForm # "pending" /\ signupErrors.emailSchema # "pending"

\* The typo extensions the fix lists: .con, .cmo, .cm, .co. and .om.
ListedTypos ==
    { <<46, 99, 111, 110>>, <<46, 99, 109, 111>>, <<46, 99, 109>>, <<46, 99, 111, 46>>,
      <<46, 111, 109>> }

\* Some country-code top-level domains: .cm (Cameroon), .om (Oman), .uk, .de,
\* .io, .co and .jp.
CountryCodeTlds ==
    { <<46, 99, 109>>, <<46, 111, 109>>, <<46, 117, 107>>, <<46, 100, 101>>,
      <<46, 105, 111>>, <<46, 99, 111>>, <<46, 106, 112>> }

\* An address in lower case that both the form's pattern and the schema's
\* email check take for an address.
WellFormedAddress(str) == EmailPattern(str) /\ ZodEmail(str) /\ str = toLowerCase(str)

\* C21: the form and the schema reject every address that ends in a listed
\* typo extension, and accept every otherwise well-formed address whose
\* domain ends in a country-code top-level domain.
C21_TyposRejectedCcTldsAccepted ==
    FieldsValidated =>
        /\ (\E typo \in ListedTypos : endsWith(toLowerCase(emailField), typo)) =>
               /\ signupErrors.emailForm # Valid
               /\ signupErrors.emailSchema # Valid
        /\ (WellFormedAddress(emailField)
                /\ \E tld \in CountryCodeTlds : endsWith(emailField, tld)) =>
               /\ signupErrors.emailForm = Valid
               /\ signupErrors.emailSchema = Valid


\* The special set !@#$%^&*(),.?":{}|<> as a string.
SpecialSet ==
    <<33, 64, 35, 36, 37, 94, 38, 42, 40, 41, 44, 46, 63, 34, 58, 123, 125, 124, 60, 62>>

\* At least 8 characters, with a digit, an uppercase letter, a lowercase
\* letter and a character of the special set.
StrongPassword(str) ==
    /\ Len(str) >= 8
    /\ \E i \in 1..Len(str) : str[i] \in 48..57
    /\ \E i \in 1..Len(str) : str[i] \in 65..90
    /\ \E i \in 1..Len(str) : str[i] \in 97..122
    /\ \E i \in 1..Len(str), j \in 1..Len(SpecialSet) : str[i] = SpecialSet[j]

\* C22: the form and the schema each accept a password exactly when it has
\* at least 8 characters, a digit, an uppercase letter, a lowercase letter and
\* a special character, so they accept the same passwords; password1 and
\* 12345678 are rejected by both.
C22_PasswordAcceptedIff ==
    FieldsValidated =>
        /\ (signupErrors.passwordForm = Valid) <=> StrongPassword(passwordField)
        /\ (signupErrors.passwordSchema = Valid) <=> StrongPassword(passwordField)
        /\ passwordField \in { <<112, 97, 115, 115, 119, 111, 114, 100, 49>>,
                               <<49, 50, 51, 52, 53, 54, 55, 56>> } =>
               /\ signupErrors.passwordForm # Valid
               /\ signupErrors.passwordSchema # Valid

\* '1Aa!1Aa!' has been accepted by the form and by the schema.
C22_Witness ==
    /\ passwordField = <<49, 65, 97, 33, 49, 65, 97, 33>>
    /\ signupErrors.passwordForm = Valid
    /\ signupErrors.passwordSchema = Valid


(***************************************************************************)
(* C23: the stored string is split on the first ':' only                   *)
(***************************************************************************)

\* C23: for a stored value with ':' and more characters appended, what is
\* decrypted is the whole remainder after the first ':', so the outcome is
\* not the one of the stored value without the appended part.
C23_FirstColonOnly ==
    (last.op = "decryptSSN" /\ last.kind \in {"appended", "appendedBlock"}) =>
        last.out # decryptSSN(enc[1])


(***************************************************************************)
(* Claims about signup, login and logout                                   *)
(***************************************************************************)

\* C24: whatever the interleaving of the signup calls, no two user rows
\* have the same email.
C24_EmailsUnique ==
    \A i, j \in DOMAIN users : users[i].email = users[j].email => i = j


(***************************************************************************)
(* C25: the card number handed to fundAccount                              *)
(***************************************************************************)

\* C25: every accountNumber handed to the fundAccount mutation with funding
\* type card is a string of 13 to 19 digits only that passes the Luhn check
\* and the brand check.
C25_SubmittedCardIsDigits ==
    (mutation.called /\ mutation.type = "card") =>
        /\ AllDigits(mutation.accountNumber, 13, 19)
        /\ LuhnReference(mutation.accountNumber) % 10 = 0
        /\ KnownBrand(mutation.accountNumber)


\* C26: a login with the email, as it was sent, and the password of a signup
\* that has succeeded does not fail with UNAUTHORIZED.
C26_LoginAfterSignup ==
    [][\A k \in DOMAIN reqs' :
          (/\ reqs'[k].op = "login"
           /\ reqs'[k].status = "UNAUTHORIZED"
           /\ ~(k \in DOMAIN reqs /\ reqs[k].status = "UNAUTHORIZED")) =>
              ~\E j \in DOMAIN reqs :
                  /\ j # k
                  /\ reqs[j].op = "signup"
                  /\ reqs[j].status = "OK"
                  /\ reqs[j].raw = reqs'[k].raw
                  /\ reqs[j].password = reqs'[k].password]_vars


\* Request k has, in this step, been taken up by login's lookup or been
\* refused by login.
LoginNotPast(k) ==
    /\ reqs'[k].op = "login"
    /\ reqs'[k].pc = "LoginCompare" \/ reqs'[k].status = "UNAUTHORIZED"
    /\ ~(k \in DOMAIN reqs /\ reqs[k] = reqs'[k])

\* C27: the steps of a login up to its UNAUTHORIZED leave the session store
\* and the users as they are, and the refused login sets no cookie.
C27_FailedLoginNoEffect ==
    [][\A k \in DOMAIN reqs' :
          LoginNotPast(k) =>
              /\ sessions' = sessions
              /\ users' = users
              /\ reqs'[k].status = "UNAUTHORIZED" => reqs'[k].cookie = NoToken]_vars

\* A signup has succeeded, and a login with its email and a wrong password
\* has been refused while the signup's session is still in the store.
C27_Witness ==
    /\ Len(reqs) = 2
    /\ LoggedIn(reqs[1])
    /\ reqs[2].op = "login"
    /\ reqs[2].status = "UNAUTHORIZED"
    /\ reqs[2].user = reqs[1].user
    /\ reqs[2].password # reqs[1].password
    /\ reqs[2].cookie = NoToken
    /\ \E i \in DOMAIN sessions : sessions[i].token = reqs[1].token


\* The rows of the store other than those with token t, in their order.
RowsWithout(t) ==
    LET kept == {i \in DOMAIN sessions : sessions[i].token # t}
    IN  [n \in 1..Cardinality(kept) |->
            sessions[CHOOSE i \in kept : Cardinality({j \in kept : j <= i}) = n]]

C29_ConflictNoEffect ==
    [][\A k \in DOMAIN reqs' :
          (/\ reqs'[k].op = "signup"
           /\ reqs'[k].status = "CONFLICT"
           /\ ~(k \in DOMAIN reqs /\ reqs[k].status = "CONFLICT")) =>
              /\ k \notin DOMAIN reqs
              /\ UserByEmail(reqs'[k].email) # NoUser
              /\ users' = users
              /\ sessions' = sessions
              /\ reqs'[k].cookie = NoToken]_vars

\* A signup has succeeded and a second signup with its email has failed with
\* CONFLICT; the one user and the one session are still there.
C29_Witness ==
    /\ Len(reqs) = 2
    /\ LoggedIn(reqs[1])
    /\ reqs[2].op = "signup"
    /\ reqs[2].status = "CONFLICT"
    /\ reqs[2].email = reqs[1].email
    /\ reqs[2].cookie = NoToken
    /\ Len(users) = 1
    /\ Len(sessions) = 1
    /\ sessions[1].token = reqs[1].token


(***************************************************************************)
(* C30: the wizard's step                                                  *)
(***************************************************************************)

\* C30: the step is always 1, 2 or 3, whatever the order of the Next and
\* Previous clicks and of the settling of the pending validations, and a Next
\* whose validation fails leaves the step as it is.
C30_StepInRange ==
    /\ [](step \in {1, 2, 3})
    /\ [][\A k \in DOMAIN clicks :
             (clicks[k].pc = "trigger" /\ clicks'[k].pc = "done" /\ ~clicks'[k].isValid)
                 => step' = step]_vars

\* Next was clicked twice on step 2 before either validation settled; both
\* settled valid and the wizard is on step 3.
C30_Witness ==
    /\ Len(clicks) = 3
    /\ clicks[2].step = 2
    /\ clicks[3].step = 2
    /\ \A k \in 1..3 : clicks[k].pc = "done" /\ clicks[k].isValid
    /\ step = 3

=============================================================================
